---- MODULE Spec2Model ----
(***************************************************************************)
(* Dobbin: a single-file transactional object database with MVCC between   *)
(* threads and a commit lock (flock) between writers.                      *)
(*                                                                         *)
(* The model covers the Database/Manager two-phase commit (database.py,    *)
(* manager.py), the transaction log read path, the working copy of a       *)
(* persistent object (persistent.py, WorkingCopyDict) and the synchronizer *)
(* hooks that give each thread its transaction timestamps.                 *)
(*                                                                         *)
(* Two Database instances live in two processes on one file.  Threads 1    *)
(* and 2 share Database 1, thread 3 uses Database 2.  Every object has one *)
(* attribute ("name"); the value a transaction writes is its own number,   *)
(* so a value names the transaction it came from.                          *)
(***************************************************************************)
EXTENDS Integers, Sequences, FiniteSets, TLC

\* ---- bounds -------------------------------------------------------------
MaxTime == 4      \* the clock stops advancing at this value
MaxTx == 2        \* transactions (and restarts) ever begun
MaxOid == 2       \* the oid counter of a Database stops at this value
MaxLog == 2       \* transactions of a log that is read for its references
MaxGroup == 2     \* VERSION segments of one such transaction

\* ---- program constants --------------------------------------------------
LOG_VERSION == 0
LOG_RECORD == 1
LOG_STREAM == 2
ROOT_OID == 0
None == 0             \* Python None for timestamps and transaction references
MARKER == 0 - 1       \* "key not present" (dict.get(key, MARKER))
DELETE == 0 - 2       \* tombstone kept in a working copy / reverse change
UNPICKLED == 0 - 3    \* a marker instance after a pickle round trip
EMPTY(o) == 0 - 10 - o   \* the key of the EMPTY marker in a thread's dict of object o

Threads == {1, 2, 3}
DBs == {1, 2}
Oids == {ROOT_OID}
Keys == Oids \cup {EMPTY(o) : o \in Oids}   \* the keys of a thread's dicts
DbOf(t) == IF t = 3 THEN 2 ELSE 1
ThreadsOf(d) == {t \in Threads : DbOf(t) = d}
Times == 1..MaxTime
NoOffset == 0 - 1     \* timestamp absent from Database._offsets
NoLock == <<0, 0>>    \* nobody holds the flock

SetMin(S) == CHOOSE x \in S : \A y \in S : x <= y

VARIABLES
  now,           \* the wall clock read by make_timestamp
  file,          \* the transaction log: sequence of segments
  flock,         \* <<database, handle>> holding the advisory lock, or NoLock
  ntx,           \* transactions begun so far (names the next transaction)
  tx_ref,        \* [DBs -> transaction]   Manager.tx_ref
  tx_timestamp,  \* [DBs -> time]          Manager.tx_timestamp
  tx_count,      \* [DBs -> Nat]           Manager.tx_count
  offsets,       \* [DBs -> [Times -> offset]]   Database._offsets
  buffer,        \* [DBs -> Seq(segment)]  Database._buffer (pickle buffer)
  wstream,       \* [DBs -> [h, open]]     Database._wstream (handle named by its transaction)
  mem,           \* [DBs -> memory]        the objects of Database._oid2obj
  connected,     \* [DBs -> SUBSET Oids]   Synchronizer._connected of the process
  local,         \* [Threads -> [Keys -> value]]  thread-local dict of the working copy
  active,        \* [Threads -> [Oids -> time]]   WorkingCopyDict._p_active
  th,            \* [Threads -> thread state]     ThreadState, Synchronizer, call position
  hist,          \* history: write conflicts met by Manager.commit, crash flag,
                 \* threads that have begun a transaction
  resolver,      \* what the application class's _p_resolve_conflict does:
                 \* "none" (the attribute is None), "returns" a state, "raises"
  objects,       \* [Objs -> [local, jar, oid, count]]  the application's objects
  attr,          \* [Objs -> object or NoObj]   the object an attribute refers to
  oreg,          \* [DBs -> SUBSET Objs]        ThreadState.registered, by identity
  begun,         \* [DBs -> BOOLEAN]            ThreadState.timestamp is not None
  db_oid,        \* [DBs -> Nat]                Database._oid
  oid2obj,       \* [DBs -> [OidKeys -> object or NoObj]]  Manager._oid2obj
  logged,        \* the oids of the VERSION segments that reached the file
  called,        \* the outcome of the last call: [op, db, obj, err]
  unconn,        \* [DBs -> SUBSET Objs]        Synchronizer._unconnected of the thread
  conn,          \* SUBSET Objs                 Synchronizer._connected (a slot: one set)
  started,       \* [DBs -> BOOLEAN]            Synchronizer._tx_start[thread] is not None
  ending,        \* [DBs -> BOOLEAN]            the thread is before its afterCompletion
  vlog,          \* the log as its reader sees it: Seq of transactions, each the Seq
                 \* of its VERSIONs [oid, ref]: the oid written and the oid its state refers to
  rpos,          \* [DBs -> Nat]                transactions of vlog the instance has read
  holds,         \* [DBs -> [oid -> value]]     what the attribute of the loaded object holds
  pdict          \* a checked-out PersistentDict: its shared items (sh), the thread's
                 \* dict of its WorkingCopyDict (lo), the outcome of the last call (out)

vars == <<now, file, flock, ntx, tx_ref, tx_timestamp, tx_count, offsets,
          buffer, wstream, mem, connected, local, active, th, hist, resolver,
          objects, attr, oreg, begun, db_oid, oid2obj, logged, called,
          unconn, conn, started, ending, vlog, rpos, holds, pdict>>

\* the state of the two-phase commit, the log and the working copies
machinery == <<now, file, flock, ntx, tx_ref, tx_timestamp, tx_count, offsets,
               buffer, wstream, mem, connected, local, active, th, hist, resolver>>

\* what the handlers of the transaction machinery never assign: the resolver,
\* and the identities (jar, oid, table) of the application's objects
outside == <<resolver, objects, attr, oreg, begun, db_oid, oid2obj, logged, called,
             unconn, conn, started, ending, vlog, rpos, holds, pdict>>

\* the reader of references
loading == <<vlog, rpos, holds>>

\* ---- segments -------------------------------------------------------------
\* VERSION payload (oid, cls, state); tx names the writing transaction (history)
Version(o, v, x) ==
  [type |-> LOG_VERSION, oid |-> o, val |-> v, ts |-> None, status |-> FALSE, tx |-> x]

\* RECORD payload TransactionRecord(timestamp, status)
TransactionRecord(ts, st, x) ==
  [type |-> LOG_RECORD, oid |-> 0, val |-> MARKER, ts |-> ts, status |-> st, tx |-> x]

\* STREAM payload (name, length), written by Database._write_stream; the
\* length bytes of the stream's content follow it in the file
Stream(n, x) ==
  [type |-> LOG_STREAM, oid |-> 0, val |-> n, ts |-> None, status |-> FALSE, tx |-> x]

\* one unit of the content that shutil.copyfileobj puts after the STREAM
Content(x) ==
  [type |-> MARKER, oid |-> 0, val |-> MARKER, ts |-> None, status |-> FALSE, tx |-> x]

\* pickle round trip of one attribute value: a marker instance does not
\* come back as the DELETE singleton
Unpickle(v) == IF v = DELETE THEN UNPICKLED ELSE v

\* a reader that forgets the entries left over at the end of the file
RECURSIVE ReadFromNoLeft(_, _, _, _)
ReadFromNoLeft(f, pos, entries, groups) ==
  IF pos > Len(f)
  THEN [groups |-> groups, left |-> <<>>, err |-> "none"]
  ELSE IF f[pos].type = LOG_VERSION
       THEN ReadFromNoLeft(f, pos + 1, Append(entries, pos), groups)
       ELSE ReadFromNoLeft(f, pos + 1, <<>>,
                           Append(groups, [rec |-> pos, entries |-> entries]))

\* ---- Database.read ----------------------------------------------------------
\* The generator of (record, entries) pairs read from segment position pos on.
\* groups: <<[rec |-> index of the RECORD, entries |-> indices of its VERSIONs]>>
\* left: the entries accumulated at end of file with no RECORD after them
\* err: what leaves the loop.  After a STREAM segment the stream position is
\* moved past the content (mmap.seek: ValueError beyond the end of the map),
\* while "offset", which the loop condition tests, stays at the end of the
\* segment: when the content ends the file the loop goes on and the
\* unpickler loads at the end of the map (EOFError).
RECURSIVE ReadFrom(_, _, _, _)
ReadFrom(f, pos, entries, groups) ==
  IF pos > Len(f)
  THEN [groups |-> groups, left |-> entries, err |-> "none"]
  ELSE IF f[pos].type = LOG_VERSION
       THEN ReadFrom(f, pos + 1, Append(entries, pos), groups)
       ELSE IF f[pos].type = LOG_STREAM
       THEN IF pos + f[pos].val > Len(f)
            THEN [groups |-> groups, left |-> entries, err |-> "ValueError"]
            ELSE IF f[pos].val > 0 /\ pos + f[pos].val = Len(f)
            THEN [groups |-> groups, left |-> entries, err |-> "EOFError"]
            ELSE ReadFrom(f, pos + 1 + f[pos].val, entries, groups)
       ELSE ReadFrom(f, pos + 1, <<>>,
                     Append(groups, [rec |-> pos, entries |-> entries]))

Read(f, offset) == ReadFrom(f, offset + 1, <<>>, <<>>)

\* Database._offsets after the generator ran over groups
RECURSIVE IndexRecords(_, _, _)
IndexRecords(offs, f, groups) ==
  IF groups = <<>> THEN offs
  ELSE IndexRecords([offs EXCEPT ![f[Head(groups).rec].ts] = Head(groups).rec],
                    f, Tail(groups))

\* ---- WorkingCopyDict --------------------------------------------------------
\* _p_apply(start, local) from change i on, for a thread's dict holding lv
\* under the key and le under EMPTY.  A change older than start is skipped; a
\* change that carries EMPTY loses it (pop) and clears the dict; then the key
\* is filled from the change unless the dict holds it (old = MARKER: the
\* change has no such key).  Result: [chs, name, empty].
RECURSIVE ApplyChanges(_, _, _, _, _)
ApplyChanges(chs, i, start, lv, le) ==
  IF i > Len(chs) THEN [chs |-> chs, name |-> lv, empty |-> le]
  ELSE IF start # None /\ chs[i].ts < start
       THEN ApplyChanges(chs, i + 1, start, lv, le)
       ELSE LET lv1 == IF chs[i].emp THEN MARKER ELSE lv
                le1 == IF chs[i].emp THEN MARKER ELSE le
            IN ApplyChanges([chs EXCEPT ![i].emp = FALSE], i + 1, start,
                            IF lv1 = MARKER THEN chs[i].old ELSE lv1, le1)

\* the loop "for timestamp, d in self._p_active.values()" of __setstate__ over
\* the dicts of the threads us, other than the caller's.  r = [m, local]
RECURSIVE ApplyToActive(_, _, _, _)
ApplyToActive(r, ac, o, us) ==
  IF us = {} THEN r
  ELSE LET u == CHOOSE x \in us : TRUE
           a == ApplyChanges(r.m.ch[o], 1, ac[u][o], r.local[u][o], r.local[u][EMPTY(o)])
       IN ApplyToActive([m |-> [r.m EXCEPT !.ch[o] = a.chs],
                         local |-> [r.local EXCEPT ![u][o] = a.name,
                                                   ![u][EMPTY(o)] = a.empty]],
                        ac, o, us \ {u})

\* WorkingCopyDict.__setstate__ called by thread t on the working copy of object
\* o of memory m.  The new state holds val under the key (MARKER: no such
\* key) and, if emp, the EMPTY marker; cts = sync.timestamp of the calling
\* thread.  A state with EMPTY clears the shared dict first, so the reverse
\* change then finds the key absent.  Result: [m, local, active].
WcSetState(m, lo, ac, t, o, val, emp, cts) ==
  LET hasChange == val # MARKER \/ emp
      before == m.sh[o]
      old == IF val # MARKER
             THEN IF emp \/ before = MARKER THEN DELETE ELSE before
             ELSE before
      sh1 == IF val = MARKER THEN (IF emp THEN MARKER ELSE before)
             ELSE IF val = DELETE THEN MARKER ELSE val
      ch1 == IF hasChange
             THEN Append(m.ch[o], [ts |-> cts, old |-> old, emp |-> emp])
             ELSE m.ch[o]
      others == {u \in ThreadsOf(DbOf(t)) \ {t} : ac[u][o] # MARKER}
      r == ApplyToActive([m |-> [m EXCEPT !.sh[o] = sh1, !.ch[o] = ch1],
                          local |-> [lo EXCEPT ![t][o] = MARKER, ![t][EMPTY(o)] = MARKER]],
                         ac, o, others)
  IN [m |-> r.m, local |-> r.local, active |-> [ac EXCEPT ![t][o] = None]]

\* Persistent._p_checkout: a shared object gets a fresh WorkingCopyDict
\* (no reverse changes, no active thread, empty thread-local dicts)
NewWorkingCopy(m, lo, ac, d, o) ==
  [m |-> [m EXCEPT !.mo[o] = "local", !.ch[o] = <<>>],
   local |-> [u \in Threads |-> IF DbOf(u) = d
                                 THEN [lo[u] EXCEPT ![o] = MARKER, ![EMPTY(o)] = MARKER]
                                 ELSE lo[u]],
   active |-> [u \in Threads |-> IF DbOf(u) = d THEN [ac[u] EXCEPT ![o] = MARKER] ELSE ac[u]]]

\* WorkingCopyDict.__init__ run by thread t (Local._p_checkout): mark the
\* thread active at its sync.timestamp and apply the reverse changes
WcInit(m, lo, ac, t, o, sts) ==
  LET a == ApplyChanges(m.ch[o], 1, sts, lo[t][o], lo[t][EMPTY(o)])
  IN [m |-> [m EXCEPT !.ch[o] = a.chs],
      local |-> [lo EXCEPT ![t][o] = a.name, ![t][EMPTY(o)] = a.empty],
      active |-> [ac EXCEPT ![t][o] = sts]]

\* obj._p_checkout() as dispatched on the object's current class
PCheckout(m, lo, ac, t, o, sts) ==
  IF m.mo[o] = "shared"
  THEN LET w == NewWorkingCopy(m, lo, ac, DbOf(t), o)
       IN WcInit(w.m, w.local, w.active, t, o, sts)
  ELSE WcInit(m, lo, ac, t, o, sts)

\* Local._p_checkin: back to the shared class and the shared dict; the working
\* copy (thread-local dicts, reverse changes, active map) is dropped
PCheckin(m, lo, ac, d, o) ==
  [m |-> [m EXCEPT !.mo[o] = "shared", !.ch[o] = <<>>],
   local |-> [u \in Threads |-> IF DbOf(u) = d
                                 THEN [lo[u] EXCEPT ![o] = MARKER, ![EMPTY(o)] = MARKER]
                                 ELSE lo[u]],
   active |-> [u \in Threads |-> IF DbOf(u) = d THEN [ac[u] EXCEPT ![o] = MARKER] ELSE ac[u]]]

\* retract(obj): return the object to shared state
Retract(m, lo, ac, d, o) == PCheckin(m, lo, ac, d, o)

\* Manager._unregister(obj) by thread t: drop one reader; share the object when
\* no reader is left (_maybe_share_object), else obj.__dict__.clear(), which
\* on a working copy empties this thread's dict and puts EMPTY into it
Unregister(m, lo, ac, t, o) ==
  LET m1 == [m EXCEPT !.cnt[o] = @ - 1]
  IN IF m1.cnt[o] = 0
     THEN Retract(m1, lo, ac, DbOf(t), o)
     ELSE [m |-> m1, local |-> [lo EXCEPT ![t][o] = MARKER, ![t][EMPTY(o)] = 1],
           active |-> ac]

\* Manager._revert(objects): _unregister every object of the set
RECURSIVE Revert(_, _, _, _, _)
Revert(m, lo, ac, t, objs) ==
  IF objs = {} THEN [m |-> m, local |-> lo, active |-> ac]
  ELSE LET o == CHOOSE x \in objs : TRUE
           r == Unregister(m, lo, ac, t, o)
       IN Revert(r.m, r.local, r.active, t, objs \ {o})


\* a resolver that hands the state back as it got it
KeepState(v) == v

\* ---- Manager._read ------------------------------------------------------------
\* obj._p_resolve_conflict(old_state, saved_state, new_state) of a class that
\* provides one: the incoming value marked as resolved
ResolveConflict(v) == IF v >= 0 THEN v + 10 ELSE v

\* The inner loop body for one VERSION seg of a record stamped ts, run by thread
\* t whose sync.timestamp is cts.  r = [m, local, active, conflicts].
ReadVersion(r, t, seg, ts, cts) ==
  LET o == seg.oid
      val == Unpickle(seg.val)
  IN IF o \notin r.m.ex
     THEN \* object.__new__(cls), then Persistent.__setstate__
          [r EXCEPT !.m = [@ EXCEPT !.ex = @ \cup {o}, !.mo[o] = "shared",
                                    !.sh[o] = val, !.ser[o] = ts, !.jar[o] = DbOf(t)]]
     ELSE IF r.m.mo[o] = "local"
          THEN \* no _p_resolve_conflict, or one that raises ConflictError: the
               \* object joins the conflicts, and the incoming state is set all
               \* the same; a resolver that returns replaces the state
               LET st == IF resolver = "returns" THEN ResolveConflict(val) ELSE val
                   w == WcSetState(r.m, r.local, r.active, t, o, st, FALSE, cts)
               IN [m |-> [w.m EXCEPT !.ser[o] = ts, !.jar[o] = DbOf(t)], local |-> w.local,
                   active |-> w.active,
                   conflicts |-> IF resolver = "returns" THEN r.conflicts
                                 ELSE r.conflicts \cup {o}]
          ELSE [r EXCEPT !.m = [@ EXCEPT !.sh[o] = IF val = MARKER THEN @ ELSE val,
                                         !.ser[o] = ts, !.jar[o] = DbOf(t)]]

RECURSIVE ReadEntries(_, _, _, _, _, _)
ReadEntries(r, t, f, entries, ts, cts) ==
  IF entries = <<>> THEN r
  ELSE ReadEntries(ReadVersion(r, t, f[Head(entries)], ts, cts), t, f,
                   Tail(entries), ts, cts)

\* the outer loop: every (record, objects) pair the generator yields is
\* applied, whatever the record's status
RECURSIVE ReadGroups(_, _, _, _, _)
ReadGroups(r, t, f, groups, cts) ==
  IF groups = <<>> THEN r
  ELSE ReadGroups(ReadEntries(r, t, f, Head(groups).entries, f[Head(groups).rec].ts, cts),
                  t, f, Tail(groups), cts)

\* the file indices of the VERSION segments Manager._read applied
AppliedOf(groups) ==
  UNION {{groups[i].entries[j] : j \in 1..Len(groups[i].entries)} : i \in 1..Len(groups)}

\* Manager._sync by thread t over Database state (m, offs, start, cnt):
\* read from the offset of the last observed timestamp, apply, count, advance
SyncFrom(m, lo, ac, offs, start, cnt, t, cts) ==
  LET offset == IF start = None THEN 0 ELSE offs[start]
  IN IF offset = NoOffset
     THEN [m |-> m, local |-> lo, active |-> ac, offsets |-> offs,
           tx_timestamp |-> start, tx_count |-> cnt,
           out |-> [err |-> "ValueError", n |-> 0, applied |-> {}, conflicts |-> {}]]
     ELSE LET g == Read(file, offset)
              k == Len(g.groups)
              r == ReadGroups([m |-> m, local |-> lo, active |-> ac, conflicts |-> {}],
                              t, file, g.groups, cts)
          IN [m |-> r.m, local |-> r.local, active |-> r.active,
              offsets |-> IndexRecords(offs, file, g.groups),
              tx_timestamp |-> IF k = 0 THEN start ELSE file[g.groups[k].rec].ts,
              tx_count |-> cnt + k,
              out |-> [err |-> IF g.err # "none" THEN g.err
                               ELSE IF g.left # <<>> THEN "IntegrityError"
                               ELSE IF r.conflicts # {} THEN "ReadConflictError"
                               ELSE "none",
                       n |-> Len(g.left), applied |-> AppliedOf(g.groups),
                       conflicts |-> r.conflicts]]

Sync(t, lo, ac, m, cts) ==
  SyncFrom(m, lo, ac, offsets[DbOf(t)], tx_timestamp[DbOf(t)], tx_count[DbOf(t)], t, cts)

\* ---- initial state --------------------------------------------------------------
\* Both Database instances were constructed on a file that holds one committed
\* transaction creating the root object, without attributes, at time 1; the
\* clock has moved on since.
InitFile ==
  <<Version(ROOT_OID, MARKER, 0), TransactionRecord(1, TRUE, 0)>>

FreshMemory ==
  [ex |-> {}, mo |-> [o \in Oids |-> "shared"], sh |-> [o \in Oids |-> MARKER],
   ser |-> [o \in Oids |-> None], cnt |-> [o \in Oids |-> 0],
   ch |-> [o \in Oids |-> <<>>], jar |-> [o \in Oids |-> None]]

\* ThreadState (manager.py) and the thread's Synchronizer fields
FreshThread ==
  [pc |-> "idle", txid |-> 0, registered |-> {}, committed |-> {},
   needs_to_join |-> TRUE, joined |-> FALSE, timestamp |-> None, cbegin |-> None,
   sync_ts |-> None, tx_start |-> None, err |-> "none",
   unconnected |-> FALSE, snap |-> [o \in Oids |-> MARKER],
   rd_pos |-> 0, rd_end |-> 0]    \* the generator of Database.read, while it is open

NoHandle == [h |-> 0, open |-> FALSE]
NoOffsets == [x \in Times |-> NoOffset]

\* ---- the application's objects: class, jar, oid, table --------------------------
\* Objects 1 and 2 are instances of a Persistent class, object 3 is an
\* ordinary Python object.  The two Database instances are used by one
\* thread each.
Objs == {1, 2, 3}
IsPersistent(x) == x # 3
NoObj == 0            \* no object (dict.get(..., None))
NoOid == 0 - 1        \* _p_oid is None
OidKeys == {NoOid} \cup 0..MaxOid
Loaded(d, k) == 10 * d + k    \* the object Manager._read creates in instance d for oid k

\* ---- the items of a PersistentDict ------------------------------------------------------------
IGNORE == 0 - 6       \* persistent.IGNORE: a key seen in iteration whose copy is a new object
DKeys == {1, 2}       \* the keys the application uses
DVals == {1, 2}       \* the values it stores
EKey == EMPTY(ROOT_OID)     \* the EMPTY marker, used as a key by clear()
DAll == DKeys \cup {EKey}

NoCall == [op |-> "none", key |-> MARKER, val |-> MARKER, err |-> "none", keys |-> {}]

\* a dictionary without items; MARKER stands for "no such key"
NoItems == [k \in DAll |-> MARKER]

NoDict == [sh |-> NoItems, lo |-> NoItems, out |-> NoCall]

\* Persistent.__new__: a new object is checked out, without jar and oid
\* (ser: _p_serial is not None)
FreshObject == [local |-> TRUE, jar |-> None, oid |-> NoOid, count |-> 0, ser |-> FALSE]

\* no object was created in the transactions under way
NoneMade == [d \in DBs |-> {}]

\* the objects before any call; rooted: the instances have loaded a root.
\* The thread of instance d created the objects made[d] in its transaction
\* under way (Local._p_checkout filed them with its synchronizer as
\* unconnected and stamped its transaction start); the others were created
\* in transactions that have ended.
ObjectsInit(rooted, made, log) ==
  /\ vlog = log
  /\ pdict = NoDict
  /\ rpos = [d \in DBs |-> 0]
  /\ holds = [d \in DBs |-> [k \in OidKeys |-> NoObj]]
  /\ unconn = made
  /\ conn = {}
  /\ started = [d \in DBs |-> made[d] # {}]
  /\ ending = [d \in DBs |-> FALSE]
  /\ objects = [x \in Objs |-> IF IsPersistent(x) THEN FreshObject
                            ELSE [FreshObject EXCEPT !.local = FALSE]]
  /\ attr = [x \in Objs |-> NoObj]
  /\ oreg = [d \in DBs |-> {}]
  /\ begun = [d \in DBs |-> FALSE]
  /\ db_oid = [d \in DBs |-> 0]
  /\ oid2obj = [d \in DBs |->
                  [k \in OidKeys |-> IF rooted /\ k = ROOT_OID THEN Loaded(d, k) ELSE NoObj]]
  /\ logged = IF rooted THEN {ROOT_OID} ELSE {}
  /\ called = [op |-> "none", db |-> 0, obj |-> NoObj, err |-> "none"]

Init ==
  /\ ObjectsInit(TRUE, NoneMade, <<>>)
  /\ now = 2
  /\ file = InitFile
  /\ flock = NoLock
  /\ ntx = 0
  /\ tx_ref = [d \in DBs |-> None]
  /\ tx_timestamp = [d \in DBs |-> 1]
  /\ tx_count = [d \in DBs |-> 1]
  /\ offsets = [d \in DBs |-> [NoOffsets EXCEPT ![1] = Len(InitFile)]]
  /\ buffer = [d \in DBs |-> <<>>]
  /\ wstream = [d \in DBs |-> NoHandle]
  /\ mem = [d \in DBs |-> [FreshMemory EXCEPT !.ex = Oids, !.ser = [o \in Oids |-> 1],
                                             !.jar = [o \in Oids |-> d]]]
  /\ connected = [d \in DBs |-> {}]
  /\ local = [t \in Threads |-> [k \in Keys |-> MARKER]]
  /\ active = [t \in Threads |-> [o \in Oids |-> MARKER]]
  /\ th = [t \in Threads |-> FreshThread]
  /\ hist = [wconf |-> {}, crashed |-> FALSE, began |-> {}]
  /\ resolver = "none"


\* ---- the clock ---------------------------------------------------------------------
\* utils.make_timestamp: time.time().  The values the next call may return:
\* the value of the call before, or a later one
make_timestamp == {c \in {now, now + 1} : c <= MaxTime}

\* ---- reads of an attribute -----------------------------------------------------------
\* getattr(obj, "name") by thread t: Local.__getattr__ / WorkingCopyDict.__getitem__
\* on a checked-out object (a dict that holds EMPTY hides the shared dict), the
\* shared dict otherwise.  MARKER: AttributeError.
\* The value is an immutable string, so the deep copy is the value itself and
\* nothing is stored in the thread's dict.
ReadAttrIn(m, lo, t, o) ==
  IF m.mo[o] = "local"
  THEN IF lo[t][o] = DELETE THEN MARKER
       ELSE IF lo[t][o] # MARKER THEN lo[t][o]
       ELSE IF lo[t][EMPTY(o)] # MARKER THEN MARKER
       ELSE m.sh[o]
  ELSE m.sh[o]

\* the read in the current state
ReadAttr(t, o) == ReadAttrIn(mem[DbOf(t)], local, t, o)

\* ---- Synchronizer.newTransaction, Manager.newTransaction --------------------------------
\* Synchronizer.newTransaction: check out again every connected object
RECURSIVE ReCheckout(_, _, _, _, _, _)
ReCheckout(m, lo, ac, t, objs, sts) ==
  IF objs = {} THEN [m |-> m, local |-> lo, active |-> ac]
  ELSE LET o == CHOOSE x \in objs : TRUE
           r == PCheckout(m, lo, ac, t, o, sts)
       IN ReCheckout(r.m, r.local, r.active, t, objs \ {o}, sts)

\* transaction.begin() in thread t: the synchronizer stamps the transaction,
\* then the database catches up on the log (Manager._sync).  The threads of a
\* process are numbered in the order of their first transaction.
NewTransaction(t) ==
  LET d == DbOf(t)
  IN /\ th[t].pc = "idle"
     /\ ntx < MaxTx
     /\ \A u \in ThreadsOf(d) : u < t => u \in hist.began
     /\ ntx' = ntx + 1
     /\ hist' = [hist EXCEPT !.began = @ \cup {t}]
     /\ \E sts \in make_timestamp :
          LET c == ReCheckout(mem[d], local, active, t, connected[d], sts)
              s == Sync(t, c.local, c.active, c.m, sts)
          IN /\ now' = sts
             /\ mem' = [mem EXCEPT ![d] = s.m]
             /\ local' = s.local
             /\ active' = s.active
             /\ offsets' = [offsets EXCEPT ![d] = s.offsets]
             /\ tx_timestamp' = [tx_timestamp EXCEPT ![d] = s.tx_timestamp]
             /\ tx_count' = [tx_count EXCEPT ![d] = s.tx_count]
             /\ th' = [th EXCEPT ![t].pc = "active", ![t].txid = ntx + 1,
                                 ![t].sync_ts = sts, ![t].tx_start = sts,
                                 ![t].err = s.out.err, ![t].snap = s.m.sh]
     /\ UNCHANGED outside
     /\ UNCHANGED <<file, flock, tx_ref, buffer, wstream, connected>>

\* ---- checkout(obj) -----------------------------------------------------------------------
\* Manager._register(obj): join the transaction on first use (stamping the
\* thread's begin timestamp) and count the thread as a reader of the object
Register(s, o, c) ==
  LET j == IF s.needs_to_join
           THEN [s EXCEPT !.needs_to_join = FALSE, !.joined = TRUE, !.timestamp = c]
           ELSE s
  IN [j EXCEPT !.registered = @ \cup {o}]

\* persistent.checkout(obj) by thread t, ts the clock read if the thread joins
\* here: obj._p_checkout(), sync(obj), jar.save(obj).  Manager._register counts
\* the thread as a reader only if the object is not yet registered with it.
\* Result: the state after the call.
CheckedOut(t, o, ts) ==
  LET d == DbOf(t)
      c == PCheckout(mem[d], local, active, t, o, th[t].sync_ts)
  IN [mem |-> [mem EXCEPT ![d] = IF o \in th[t].registered THEN c.m
                                  ELSE [c.m EXCEPT !.cnt[o] = @ + 1]],
      local |-> c.local,
      active |-> c.active,
      connected |-> [connected EXCEPT ![d] = @ \cup {o}],
      th |-> [th EXCEPT ![t] = [Register(th[t], o, ts) EXCEPT
                                  !.tx_start = th[t].sync_ts]]]

\* persistent.checkout(obj), the first or a later one of the transaction
Checkout(t, o) ==
  /\ th[t].pc = "active"
  /\ o \in mem[DbOf(t)].ex
  /\ \E ts \in (IF th[t].needs_to_join THEN make_timestamp ELSE {now}) :
       LET c == CheckedOut(t, o, ts)
       IN /\ now' = ts
          /\ mem' = c.mem
          /\ local' = c.local
          /\ active' = c.active
          /\ connected' = c.connected
          /\ th' = c.th
  /\ UNCHANGED outside
  /\ UNCHANGED <<file, flock, ntx, tx_ref, tx_timestamp, tx_count, offsets,
                 buffer, wstream, hist>>

\* obj.name = value in thread t (Local.__setattr__); on a shared object the
\* assignment raises TypeError and nothing changes
Write(t, o) ==
  /\ th[t].pc = "active"
  /\ o \in th[t].registered
  /\ mem[DbOf(t)].mo[o] = "local"
  /\ local[t][o] # th[t].txid
  /\ local' = [local EXCEPT ![t][o] = th[t].txid]
  /\ UNCHANGED outside
  /\ UNCHANGED <<now, file, flock, ntx, tx_ref, tx_timestamp, tx_count, offsets,
                 buffer, wstream, mem, connected, active, th, hist>>

\* Persistent() in thread t: __new__ checks the new object out, and the
\* synchronizer files it under the thread's unconnected objects (no jar)
NewObject(t) ==
  /\ th[t].pc = "active"
  /\ ~th[t].unconnected
  /\ th' = [th EXCEPT ![t].unconnected = TRUE, ![t].tx_start = th[t].sync_ts]
  /\ UNCHANGED outside
  /\ UNCHANGED <<now, file, flock, ntx, tx_ref, tx_timestamp, tx_count, offsets,
                 buffer, wstream, mem, connected, local, active, hist>>

\* ---- transaction.commit(): beforeCompletion ----------------------------------------------
\* Synchronizer.beforeCompletion; the Database's handlers follow only if it
\* joined this transaction.  If it did not, and the thread has an unconnected
\* object, the synchronizer alone has joined and its tpc_vote raises.
BeforeCompletion(t) ==
  /\ th[t].pc = "active"
  /\ \E c \in make_timestamp :
       /\ now' = c
       /\ th' = [th EXCEPT ![t].sync_ts = c, ![t].tx_start = None,
                           ![t].err = IF ~th[t].joined /\ th[t].unconnected
                                      THEN "ObjectGraphError" ELSE @,
                           ![t].pc = IF th[t].joined THEN "tpc_begin" ELSE "after"]
  /\ UNCHANGED outside
  /\ UNCHANGED <<file, flock, ntx, tx_ref, tx_timestamp, tx_count, offsets,
                 buffer, wstream, mem, connected, local, active, hist>>


\* ---- Database.tpc_begin, Manager.tpc_begin ---------------------------------------------------
\* flock(fd, LOCK_EX | LOCK_NB) on a new open file description: granted only
\* when no open file description holds the lock
LockGranted(lk) == lk = NoLock

\* tpc_begin(transaction) in thread t.  self._wstream is rebound to a newly
\* opened file; the file object it held before is dropped without close():
\* a reference-counting runtime closes it at once (gc), which releases a lock
\* it still held, another runtime leaves it open.  Then the non-blocking lock
\* attempt: on IOError tx_ref is cleared and the error propagates; else tx_ref
\* is the transaction and Manager.tpc_begin catches up on the log.
TpcBegin(t) ==
  LET d == DbOf(t)
      me == th[t].txid
      old == wstream[d]
      held == old.open /\ flock = <<d, old.h>>
  IN /\ th[t].pc = "tpc_begin"
     /\ tx_ref[d] # me
     /\ \E gc \in BOOLEAN :
          LET lk == IF gc /\ held THEN NoLock ELSE flock
              s == Sync(t, local, active, mem[d], th[t].sync_ts)
          IN /\ (~gc => held)
             /\ wstream' = [wstream EXCEPT ![d] = [h |-> me, open |-> TRUE]]
             /\ IF LockGranted(lk)
                THEN /\ flock' = <<d, me>>
                     /\ tx_ref' = [tx_ref EXCEPT ![d] = me]
                     /\ mem' = [mem EXCEPT ![d] = s.m]
                     /\ local' = s.local
                     /\ active' = s.active
                     /\ offsets' = [offsets EXCEPT ![d] = s.offsets]
                     /\ tx_timestamp' = [tx_timestamp EXCEPT ![d] = s.tx_timestamp]
                     /\ tx_count' = [tx_count EXCEPT ![d] = s.tx_count]
                     /\ th' = [th EXCEPT ![t].err = s.out.err,
                                         ![t].pc = IF s.out.err = "none" THEN "commit"
                                                   ELSE "fail"]
                ELSE /\ flock' = lk
                     /\ tx_ref' = [tx_ref EXCEPT ![d] = None]
                     /\ th' = [th EXCEPT ![t].err = "IOError", ![t].pc = "fail"]
                     /\ UNCHANGED <<mem, local, active, offsets, tx_timestamp,
                                    tx_count>>
     /\ UNCHANGED outside
     /\ UNCHANGED <<now, file, ntx, buffer, connected, hist>>

\* ---- Manager.commit ------------------------------------------------------------------------------
\* a commit loop that never raises (what C1 rules out)
NoWriteConflict(serial, begin) == FALSE

\* "if obj._p_serial > timestamp: raise WriteConflictError(obj)"
WriteConflict(serial, begin) == serial > begin

\* obj.__getstate__() of the visited object: the thread's dict of a checked-out
\* object (WorkingCopyDict.__reduce__), the instance dict of a shared one
GetState(t, o) ==
  IF mem[DbOf(t)].mo[o] = "local" THEN local[t][o] ELSE mem[DbOf(t)].sh[o]

\* the orders in which "for obj in self._thread.registered" may visit a set
Orders(S) ==
  {q \in [1..Cardinality(S) -> S] : \A i, j \in 1..Cardinality(S) : q[i] = q[j] => i = j}

\* the loop over the registered objects, r the state the loop has reached:
\* jar check, conflict check, then write (a VERSION pickled into the buffer),
\* committed.add, registered.remove; a raise leaves the loop.  late is the
\* history of the visits that met a serial later than the begin timestamp.
RECURSIVE CommitLoop(_, _, _, _)
CommitLoop(r, t, order, begin) ==
  IF order = <<>> \/ r.err # "none" THEN r
  ELSE LET o == Head(order)
           serial == mem[DbOf(t)].ser[o]
           g == [r EXCEPT !.late = IF serial > begin THEN @ \cup {<<th[t].txid, o>>} ELSE @]
       IN IF mem[DbOf(t)].jar[o] # DbOf(t)
          THEN [r EXCEPT !.err = "InvalidObjectReference"]
          ELSE IF WriteConflict(serial, begin)
          THEN [g EXCEPT !.err = "WriteConflictError"]
          ELSE CommitLoop([g EXCEPT !.buf = Append(@, Version(o, GetState(t, o), th[t].txid)),
                                    !.committed = @ \cup {o},
                                    !.registered = @ \ {o}],
                          t, Tail(order), begin)

\* Manager.commit(transaction) in thread t: keep the begin timestamp, stamp
\* the transaction anew, visit the registered objects; only a loop that ran to
\* its end reaches "self.tx_timestamp = self._thread.timestamp".  tpc_vote,
\* which follows, changes nothing.  segs is what persistent_id writes to
\* _wstream itself (_write_stream) while a visited object is pickled.
CommitWith(t, segs) ==
  LET d == DbOf(t)
  IN /\ th[t].pc = "commit"
     /\ \E c \in make_timestamp, order \in Orders(th[t].registered) :
          LET r == CommitLoop([buf |-> buffer[d], committed |-> th[t].committed,
                               registered |-> th[t].registered, err |-> "none",
                               late |-> hist.wconf],
                              t, order, th[t].timestamp)
          IN /\ now' = c
             /\ buffer' = [buffer EXCEPT ![d] = r.buf]
             /\ hist' = [hist EXCEPT !.wconf = r.late]
             /\ tx_timestamp' = [tx_timestamp EXCEPT
                                   ![d] = IF r.err = "none" THEN c ELSE @]
             /\ th' = [th EXCEPT ![t].timestamp = c, ![t].cbegin = th[t].timestamp,
                                 ![t].committed = r.committed,
                                 ![t].registered = r.registered,
                                 ![t].err = r.err,
                                 ![t].pc = IF r.err = "none" THEN "finish" ELSE "fail"]
             /\ file' = IF r.committed # th[t].committed THEN file \o segs ELSE file
     /\ UNCHANGED outside
     /\ UNCHANGED <<flock, ntx, tx_ref, tx_count, offsets, wstream, mem,
                    connected, local, active>>

\* a commit of objects whose states hold no PersistentFile
Commit(t) == CommitWith(t, <<>>)

\* the lengths of the files stored here
StreamLengths == {1, 2}

\* a commit of an object whose state holds a PersistentFile of n units
CommitFile(t) ==
  \E n \in StreamLengths :
    CommitWith(t, <<Stream(n, th[t].txid)>> \o [i \in 1..n |-> Content(th[t].txid)])


\* ---- Database.tpc_finish / tpc_abort, Manager.tpc_finish / tpc_abort ------------------------------
\* _commitlock_release(): flock(fd, LOCK_UN) on the descriptor of the file
\* self._wstream named when tpc_begin last ran
CommitLockRelease(d) == IF flock = <<d, wstream[d].h>> THEN NoLock ELSE flock

\* Manager.tpc_finish, the loop body for one committed object: the committed
\* state becomes the shared state, the serial is the commit timestamp, the
\* thread's registration is released
FinishObject(r, t, o, cts, ts) ==
  LET w == IF r.m.mo[o] = "local"
           THEN WcSetState(r.m, r.local, r.active, t, o, r.local[t][o],
                           r.local[t][EMPTY(o)] # MARKER, cts)
           ELSE r
      \* a state that holds EMPTY clears the shared dict, _p_jar included
      cleared == r.m.mo[o] = "local" /\ r.local[t][EMPTY(o)] # MARKER
      m1 == [w.m EXCEPT !.ex = @ \cup {o}, !.ser[o] = ts,
                        !.jar[o] = IF cleared THEN None ELSE @]
  IN Unregister(m1, w.local, w.active, t, o)

RECURSIVE FinishObjects(_, _, _, _, _)
FinishObjects(r, t, objs, cts, ts) ==
  IF objs = {} THEN r
  ELSE LET o == CHOOSE x \in objs : TRUE
       IN FinishObjects(FinishObject(r, t, o, cts, ts), t, objs \ {o}, cts, ts)

\* a Database that takes every transaction for its own
AlwaysTxRef(d, x) == FALSE

\* "if transaction is not self.tx_ref: return" of tpc_vote, tpc_finish and
\* tpc_abort
NotTxRef(d, x) == tx_ref[d] # x

\* Manager._tpc_cleanup on the ThreadState
TpcCleanup(s) ==
  [s EXCEPT !.registered = {}, !.committed = {}, !.needs_to_join = TRUE]

\* tpc_finish(transaction) in thread t.  A transaction that is not tx_ref
\* returns at once (Manager.tpc_finish is not reached).  The holder appends
\* RECORD(tx_timestamp, True), flushes the buffer, indexes the offset, clears
\* tx_ref, releases the lock and closes the stream; then Manager.tpc_finish.
TpcFinish(t) ==
  LET d == DbOf(t)
      me == th[t].txid
      f1 == file \o buffer[d] \o <<TransactionRecord(tx_timestamp[d], TRUE, me)>>
      r == FinishObjects([m |-> mem[d], local |-> local, active |-> active], t,
                         th[t].committed, th[t].sync_ts, th[t].timestamp)
  IN /\ th[t].pc = "finish"
     /\ ~th[t].unconnected
     /\ IF NotTxRef(d, me)
        THEN /\ th' = [th EXCEPT ![t].pc = "after"]
             /\ UNCHANGED <<file, flock, tx_ref, tx_count, offsets, buffer, wstream,
                            mem, local, active>>
        ELSE /\ file' = f1
             /\ buffer' = [buffer EXCEPT ![d] = <<>>]
             /\ offsets' = [offsets EXCEPT ![d][tx_timestamp[d]] = Len(f1)]
             /\ tx_ref' = [tx_ref EXCEPT ![d] = None]
             /\ flock' = CommitLockRelease(d)
             /\ wstream' = [wstream EXCEPT ![d].open = FALSE]
             /\ mem' = [mem EXCEPT ![d] = r.m]
             /\ local' = r.local
             /\ active' = r.active
             /\ tx_count' = [tx_count EXCEPT ![d] = @ + 1]
             /\ th' = [th EXCEPT ![t] = [TpcCleanup(th[t]) EXCEPT !.pc = "after"]]
     /\ UNCHANGED outside
     /\ UNCHANGED <<now, ntx, tx_timestamp, connected, hist>>

\* The transaction manager gives up the commit of thread t.  Manager.abort
\* (revert: the registered and the committed objects are reverted) reaches a
\* resource manager that has not voted; tpc_abort reaches every one.
\* Database.tpc_abort returns at once for a transaction that is not tx_ref;
\* the holder appends RECORD(tx_timestamp, False), flushes, releases the
\* lock, closes the stream; then Manager.tpc_abort cleans up.
AbortWith(t, revert, e) ==
  LET d == DbOf(t)
      me == th[t].txid
      f1 == file \o buffer[d] \o <<TransactionRecord(tx_timestamp[d], FALSE, me)>>
      r == IF revert
           THEN Revert(mem[d], local, active, t, th[t].registered \cup th[t].committed)
           ELSE [m |-> mem[d], local |-> local, active |-> active]
      s == IF revert
           THEN [th[t] EXCEPT !.registered = {}, !.committed = {}, !.pc = "after", !.err = e]
           ELSE [th[t] EXCEPT !.pc = "after", !.err = e]
  IN /\ mem' = [mem EXCEPT ![d] = r.m]
     /\ local' = r.local
     /\ active' = r.active
     /\ IF NotTxRef(d, me)
        THEN /\ th' = [th EXCEPT ![t] = s]
             /\ UNCHANGED <<file, flock, tx_ref, tx_count, offsets, buffer, wstream>>
        ELSE /\ file' = f1
             /\ buffer' = [buffer EXCEPT ![d] = <<>>]
             /\ offsets' = [offsets EXCEPT ![d][tx_timestamp[d]] = Len(f1)]
             /\ tx_ref' = [tx_ref EXCEPT ![d] = None]
             /\ flock' = CommitLockRelease(d)
             /\ wstream' = [wstream EXCEPT ![d].open = FALSE]
             /\ tx_count' = [tx_count EXCEPT ![d] = @ + 1]
             /\ th' = [th EXCEPT ![t] = TpcCleanup(s)]
     /\ UNCHANGED outside
     /\ UNCHANGED <<now, ntx, tx_timestamp, connected, hist>>

\* tpc_begin or commit raised: abort, then tpc_abort
Abort(t) ==
  /\ th[t].pc = "fail"
  /\ AbortWith(t, TRUE, th[t].err)

\* Synchronizer.tpc_vote raises ObjectGraphError for an object that is still
\* unconnected, after every resource manager has committed.  The sort keys are
\* object addresses, so the database has voted before it (voted: no abort,
\* only tpc_abort) or has not.
VoteFail(t) ==
  /\ th[t].pc = "finish"
  /\ th[t].unconnected
  /\ \E voted \in BOOLEAN : AbortWith(t, ~voted, "ObjectGraphError")

\* ---- Synchronizer.afterCompletion ------------------------------------------------------------------
\* earliest: the smallest transaction start among the process's threads
\* (filter(None, ...)), None when there is none
Earliest(d) ==
  LET starts == {th[u].tx_start : u \in ThreadsOf(d)} \ {None}
  IN IF starts = {} THEN None ELSE SetMin(starts)

\* the test that lets a connected object return to shared state
MayCheckin(earliest, last) == earliest = None \/ (last # None /\ earliest >= last)

\* check in every object of objs that is still checked out
RECURSIVE CheckinAll(_, _, _, _, _)
CheckinAll(m, lo, ac, d, objs) ==
  IF objs = {} THEN [m |-> m, local |-> lo, active |-> ac]
  ELSE LET o == CHOOSE x \in objs : TRUE
           r == IF m.mo[o] = "local" THEN PCheckin(m, lo, ac, d, o)
                ELSE [m |-> m, local |-> lo, active |-> ac]
       IN CheckinAll(r.m, r.local, r.active, d, objs \ {o})

AfterCompletion(t) ==
  LET d == DbOf(t)
      earliest == Earliest(d)
      back == {o \in connected[d] : MayCheckin(earliest, mem[d].ser[o])}
      r == CheckinAll(mem[d], local, active, d, back)
  IN /\ th[t].pc = "after"
     /\ mem' = [mem EXCEPT ![d] = r.m]
     /\ local' = r.local
     /\ active' = r.active
     /\ connected' = [connected EXCEPT ![d] = @ \ back]
     /\ th' = [th EXCEPT ![t].tx_start = None, ![t].joined = FALSE, ![t].pc = "idle",
                         ![t].txid = None, ![t].err = "none", ![t].cbegin = None,
                         ![t].sync_ts = None, ![t].snap = FreshThread.snap,
                         ![t].unconnected = FALSE]
     /\ UNCHANGED outside
     /\ UNCHANGED <<now, file, flock, ntx, tx_ref, tx_timestamp, tx_count, offsets,
                    buffer, wstream, hist>>


\* ---- crash and restart of a process -------------------------------------------------------------------
\* The process of thread t dies inside Database._flush of its tpc_finish: the
\* buffered VERSION segments have reached the file, the RECORD has not.  The
\* operating system drops the process's lock; its threads are gone.
CrashInFlush(t) ==
  LET d == DbOf(t)
  IN /\ th[t].pc = "finish"
     /\ ~th[t].unconnected
     /\ tx_ref[d] = th[t].txid
     /\ buffer[d] # <<>>
     /\ file' = file \o buffer[d]
     /\ buffer' = [buffer EXCEPT ![d] = <<>>]
     /\ flock' = IF flock[1] = d THEN NoLock ELSE flock
     /\ wstream' = [wstream EXCEPT ![d] = NoHandle]
     /\ tx_ref' = [tx_ref EXCEPT ![d] = None]
     /\ th' = [u \in Threads |-> IF DbOf(u) = d THEN [FreshThread EXCEPT !.pc = "dead"]
                                 ELSE th[u]]
     /\ hist' = [hist EXCEPT !.crashed = TRUE]
     /\ UNCHANGED outside
     /\ UNCHANGED <<now, ntx, tx_timestamp, tx_count, offsets, mem, connected, local,
                    active>>

\* Database(path) constructed again after the crash: Manager.__init__ loads
\* the log from offset 0 into an empty table (_sync).  An error of the load
\* propagates out of the constructor, and the process has no database.
Reopen(d) ==
  LET t == CHOOSE u \in ThreadsOf(d) : TRUE
      lo == [u \in Threads |-> IF DbOf(u) = d THEN [k \in Keys |-> MARKER] ELSE local[u]]
      ac == [u \in Threads |-> IF DbOf(u) = d THEN [o \in Oids |-> MARKER] ELSE active[u]]
      s == SyncFrom(FreshMemory, lo, ac, NoOffsets, None, 0, t, None)
  IN /\ \A u \in ThreadsOf(d) : th[u].pc = "dead"
     /\ ntx < MaxTx
     /\ ntx' = ntx + 1
     /\ mem' = [mem EXCEPT ![d] = s.m]
     /\ local' = s.local
     /\ active' = s.active
     /\ offsets' = [offsets EXCEPT ![d] = s.offsets]
     /\ tx_timestamp' = [tx_timestamp EXCEPT ![d] = s.tx_timestamp]
     /\ tx_count' = [tx_count EXCEPT ![d] = s.tx_count]
     /\ connected' = [connected EXCEPT ![d] = {}]
     /\ th' = [u \in Threads |->
                 IF DbOf(u) = d /\ s.out.err = "none" THEN FreshThread ELSE th[u]]
     /\ UNCHANGED outside
     /\ UNCHANGED <<now, file, flock, tx_ref, buffer, wstream, hist>>

\* ---- the system ------------------------------------------------------------------------------------------
Next ==
  \/ \E t \in Threads : NewTransaction(t)
  \/ \E t \in Threads, o \in Oids : Checkout(t, o)
  \/ \E t \in Threads, o \in Oids : Write(t, o)
  \/ \E t \in Threads : NewObject(t)
  \/ \E t \in Threads : BeforeCompletion(t)
  \/ \E t \in Threads : TpcBegin(t)
  \/ \E t \in Threads : Commit(t)
  \/ \E t \in Threads : TpcFinish(t)
  \/ \E t \in Threads : Abort(t)
  \/ \E t \in Threads : VoteFail(t)
  \/ \E t \in Threads : AfterCompletion(t)
  \/ \E t \in Threads : CrashInFlush(t)
  \/ \E d \in DBs : Reopen(d)

Spec == Init /\ [][Next]_vars


\* ---- a run under way ----------------------------------------------------------------------------------
\* Thread 1 has begun transaction 1 at time 2 and checked out the root
\* (NewTransaction(1), Checkout(1, ROOT_OID) from Init); a second
\* transaction, numbered 8, has run from its begin to afterCompletion and
\* committed at time 3, being
\*   "foreign": in thread 3 of the other process, writing the root; the
\*              application class may provide a conflict resolver;
\*   "flagged": in thread 2 of the same process, which checked the root out and
\*              wrote nothing to it, before thread 1's checkout at time 3; its
\*              _unregister left a reader behind, so its dict was cleared and
\*              holds EMPTY.
\* ntx counts the transactions begun so far by the numbers 1..ntx.
Committed(scene) ==
  <<Version(ROOT_OID, IF scene = "foreign" THEN 8 ELSE MARKER, 8),
    TransactionRecord(3, TRUE, 8)>>

Holding(joined) ==
  [FreshThread EXCEPT !.pc = "active", !.txid = 1, !.registered = {ROOT_OID},
                      !.needs_to_join = FALSE, !.joined = TRUE, !.timestamp = joined,
                      !.sync_ts = 2, !.tx_start = 2]

InitMid ==
  \E scene \in {"foreign", "flagged"} :
    LET w == IF scene = "foreign" THEN 2 ELSE 1      \* the database that committed
        f == InitFile \o Committed(scene)
    IN /\ now = 3
       /\ file = f
       /\ flock = NoLock
       /\ ntx = 1
       /\ tx_ref = [d \in DBs |-> None]
       /\ tx_timestamp = [d \in DBs |-> IF d = w THEN 3 ELSE 1]
       /\ tx_count = [d \in DBs |-> IF d = w THEN 2 ELSE 1]
       /\ offsets = [d \in DBs |->
                       IF d = w
                       THEN [NoOffsets EXCEPT ![1] = Len(InitFile), ![3] = Len(f)]
                       ELSE [NoOffsets EXCEPT ![1] = Len(InitFile)]]
       /\ buffer = [d \in DBs |-> <<>>]
       /\ wstream = [d \in DBs |-> IF d = w THEN [h |-> 8, open |-> FALSE] ELSE NoHandle]
       /\ mem = [d \in DBs |->
                   [FreshMemory EXCEPT
                      !.ex = Oids,
                      !.jar = [o \in Oids |-> d],
                      !.ser = [o \in Oids |-> IF d = w THEN 3 ELSE 1],
                      !.sh = [o \in Oids |-> IF d = 2 /\ w = 2 THEN 8 ELSE MARKER],
                      !.mo = [o \in Oids |-> IF d = 1 THEN "local" ELSE "shared"],
                      !.cnt = [o \in Oids |-> IF d = 1 THEN 1 ELSE 0]]]
       /\ connected = [d \in DBs |-> IF d = 1 THEN {ROOT_OID} ELSE {}]
       /\ local = [t \in Threads |->
                     [k \in Keys |-> IF scene = "flagged" /\ t = 2 /\ k = EMPTY(ROOT_OID)
                                     THEN 1 ELSE MARKER]]
       /\ active = [t \in Threads |->
                      [o \in Oids |-> IF t = 1 THEN 2
                                      ELSE IF scene = "flagged" /\ t = 2 THEN None
                                      ELSE MARKER]]
       /\ th = [t \in Threads |->
                  IF t = 1 THEN Holding(IF scene = "foreign" THEN 2 ELSE 3)
                  ELSE IF DbOf(t) = w THEN [FreshThread EXCEPT !.timestamp = 3]
                  ELSE FreshThread]
       /\ hist = [wconf |-> {}, crashed |-> FALSE,
                  began |-> IF scene = "foreign" THEN {1, 3} ELSE {1, 2}]
       /\ resolver \in (IF scene = "foreign" THEN {"none", "returns", "raises"}
                        ELSE {"none"})
       /\ ObjectsInit(TRUE, NoneMade, <<>>)

SpecMid == InitMid /\ [][Next]_vars

\* ---- add, elect, checkout, commit on the application's objects -----------------------------------
\* The calls below work on st = [objects, oreg, begun, db_oid, committed,
\* logged, err], the part of the state they read and assign.
Here ==
  [objects |-> objects, oreg |-> oreg, begun |-> begun, db_oid |-> db_oid,
   committed |-> {}, logged |-> logged, err |-> "none"]

\* Manager._register(obj) on instance d: join on first use, add to the
\* registered set, count the reader once
ORegister(st, d, x) ==
  [st EXCEPT !.objects[x].count = IF x \in st.oreg[d] THEN @ ELSE @ + 1,
             !.oreg[d] = @ \cup {x},
             !.begun[d] = TRUE]

\* an add that accepts every object
AddAlways(x, ob, d) == "none"

\* the checks of Manager.add(obj), in their order: the exception raised, or "none"
AddError(x, ob, d) ==
  IF ~IsPersistent(x) THEN "TypeError"
  ELSE IF ~ob.local THEN "TypeError"
  ELSE IF ob.jar = None THEN "none"
  ELSE IF ob.jar = d THEN "RuntimeError"
  ELSE "InvalidObjectReference"

\* Manager.add(obj) on instance d
AddTo(st, d, x) ==
  LET e == AddError(x, st.objects[x], d)
  IN IF e # "none" THEN [st EXCEPT !.err = e]
     ELSE ORegister([st EXCEPT !.objects[x].jar = d], d, x)

\* Database.new_oid(obj); the assignment to a shared object raises
NewOid(st, d, x) ==
  IF ~st.objects[x].local THEN [st EXCEPT !.err = "TypeError"]
  ELSE [st EXCEPT !.objects[x].oid = st.db_oid[d] + 1, !.db_oid[d] = st.db_oid[d] + 1]

\* a pickler that leaves the objects referred to alone
NoPersistentId(st, d, y) == st

\* persistent_id(obj) of Database.write for the object y an attribute refers to
PersistentId(st, d, y) ==
  IF y = NoObj \/ ~IsPersistent(y) THEN st
  ELSE LET a == IF st.objects[y].jar = None THEN AddTo(st, d, y) ELSE st
       IN IF a.err # "none" THEN a
          ELSE IF a.objects[y].oid = NoOid THEN NewOid(a, d, y) ELSE a

\* Manager.commit: one visit of the loop over the registered objects.  The
\* thread of instance d alone commits the objects of d, so that no serial is
\* later than the thread's begin timestamp (None ordered before every time).
OCommitVisit(st, d, x) ==
  IF st.objects[x].jar # d THEN [st EXCEPT !.err = "InvalidObjectReference"]
  ELSE LET w == PersistentId(st, d, attr[x])
       IN IF w.err # "none" THEN w
          ELSE [w EXCEPT !.committed = @ \cup {x},
                         !.oreg[d] = @ \ {x},
                         !.logged = @ \cup {w.objects[x].oid}]

\* "while registered: for obj in tuple(registered)" after the first visit
RECURSIVE OCommitLoop(_, _)
OCommitLoop(st, d) ==
  IF st.oreg[d] = {} \/ st.err # "none" THEN st
  ELSE OCommitLoop(OCommitVisit(st, d, CHOOSE x \in st.oreg[d] : TRUE), d)

\* Manager._unregister(obj): the last reader returns the object to shared state
OUnregister(ob) ==
  [ob EXCEPT !.count = @ - 1, !.local = IF ob.count = 1 THEN FALSE ELSE @]

\* the entries Manager._read adds to the table of instance d: an object is
\* created for every oid of the log that the table lacks
LoadInto(tab, d) ==
  [k \in OidKeys |-> IF k \in logged /\ tab[k] = NoObj THEN Loaded(d, k) ELSE tab[k]]

\* db.add(obj)
Add(d, x) ==
  LET r == AddTo(Here, d, x)
  IN /\ ~ending[d]
     /\ objects' = r.objects
     /\ oreg' = r.oreg
     /\ begun' = r.begun
     /\ called' = [op |-> "add", db |-> d, obj |-> x, err |-> r.err]
     /\ UNCHANGED <<attr, db_oid, oid2obj, logged, unconn, conn, started, ending>>
     /\ UNCHANGED <<machinery, loading, pdict>>

\* db.elect(obj).  Manager.root catches up on the log while the thread has no
\* timestamp; the oid is assigned before add is called; assigning to a shared
\* object raises TypeError.
Elect(d, x) ==
  LET tab == IF begun[d] THEN oid2obj[d] ELSE LoadInto(oid2obj[d], d)
      r == IF ~IsPersistent(x) THEN [Here EXCEPT !.err = "TypeError"]
           ELSE IF objects[x].oid # NoOid THEN [Here EXCEPT !.err = "ValueError"]
           ELSE IF tab[ROOT_OID] # NoObj THEN [Here EXCEPT !.err = "RuntimeError"]
           ELSE IF ~objects[x].local THEN [Here EXCEPT !.err = "TypeError"]
           ELSE AddTo([Here EXCEPT !.objects[x].oid = ROOT_OID], d, x)
  IN /\ ~ending[d]
     /\ objects' = r.objects
     /\ oreg' = r.oreg
     /\ begun' = r.begun
     /\ oid2obj' = IF ~IsPersistent(x) \/ objects[x].oid # NoOid THEN oid2obj
                   ELSE [oid2obj EXCEPT ![d] = tab]
     /\ called' = [op |-> "elect", db |-> d, obj |-> x, err |-> r.err]
     /\ UNCHANGED <<attr, db_oid, logged, unconn, conn, started, ending>>
     /\ UNCHANGED <<machinery, loading, pdict>>

\* persistent.checkout(obj) of a shared object by the thread of its jar:
\* the object becomes a working copy, Local._p_checkout files it with the
\* synchronizer (sync(obj): connected, as it has a jar) and the jar saves it
\* (Manager.save: _register)
OCheckout(x) ==
  LET j == objects[x].jar
      r == ORegister([Here EXCEPT !.objects[x].local = TRUE], j, x)
  IN /\ IsPersistent(x)
     /\ ~objects[x].local
     /\ j # None
     /\ ~ending[j]
     /\ objects' = r.objects
     /\ oreg' = r.oreg
     /\ begun' = r.begun
     /\ conn' = conn \cup {x}
     /\ started' = [started EXCEPT ![j] = TRUE]
     /\ called' = [op |-> "checkout", db |-> j, obj |-> x, err |-> "none"]
     /\ UNCHANGED <<attr, db_oid, oid2obj, logged, unconn, ending>>
     /\ UNCHANGED <<machinery, loading, pdict>>

\* obj.attr = other on a checked-out object
SetAttr(x, y) ==
  /\ IsPersistent(x)
  /\ objects[x].local
  /\ x # y
  /\ attr[x] # y
  /\ attr' = [attr EXCEPT ![x] = y]
  /\ called' = [op |-> "setattr", db |-> 0, obj |-> x, err |-> "none"]
  /\ UNCHANGED <<objects, oreg, begun, db_oid, oid2obj, logged, unconn, conn, started, ending>>
  /\ UNCHANGED <<machinery, loading, pdict>>

\* transaction.commit() of the thread of instance d, up to afterCompletion.
\* Synchronizer.beforeCompletion clears the thread's transaction start and
\* joins if the thread has unconnected objects; the Database has joined if it
\* registered an object.  Manager.tpc_begin catches up on the log;
\* Manager.commit loops over the registered objects, starting with any of
\* them; Synchronizer.tpc_vote visits the unconnected objects in any order,
\* moves those with a jar (moved) and raises at the first without; then
\* Manager.tpc_finish enters the committed objects in the table, stamps and
\* unregisters them.  If commit raised, Manager.abort unregisters what was
\* registered or committed; if the vote raised, it does so only when the
\* Database had not voted yet.  The VERSION segments written reach the file
\* with the RECORD of either outcome.
TransactionCommit(d) ==
  /\ ~ending[d]
  /\ oreg[d] # {} \/ unconn[d] # {}
  /\ \E first \in (IF oreg[d] = {} THEN {NoObj} ELSE oreg[d]), voted \in BOOLEAN,
        moved \in SUBSET unconn[d] :
       LET r == IF oreg[d] = {} THEN Here
                ELSE OCommitLoop(OCommitVisit([Here EXCEPT !.begun[d] = TRUE], d, first), d)
           less == {x \in unconn[d] : r.objects[x].jar = None}
           err == IF r.err # "none" THEN r.err
                  ELSE IF less # {} THEN "ObjectGraphError" ELSE "none"
           done == IF err = "none" THEN r.committed
                   ELSE IF r.err # "none" \/ ~voted THEN r.committed \cup r.oreg[d]
                   ELSE {}
       IN /\ r.db_oid[d] <= MaxOid
          /\ voted => (err = "ObjectGraphError" /\ oreg[d] # {})
          /\ moved = IF r.err # "none" THEN {}
                     ELSE IF less = {} THEN unconn[d]
                     ELSE moved \ less
          /\ objects' = [x \in Objs |->
                           IF x \in done
                           THEN [OUnregister(r.objects[x]) EXCEPT
                                   !.ser = IF err = "none" THEN TRUE ELSE @]
                           ELSE r.objects[x]]
          /\ oreg' = [r.oreg EXCEPT ![d] = {}]
          /\ begun' = r.begun
          /\ db_oid' = r.db_oid
          /\ logged' = r.logged
          /\ oid2obj' = [oid2obj EXCEPT ![d] =
                           [k \in OidKeys |->
                              IF err = "none" /\ \E x \in r.committed : r.objects[x].oid = k
                              THEN CHOOSE x \in r.committed : r.objects[x].oid = k
                              ELSE LoadInto(oid2obj[d], d)[k]]]
          /\ conn' = conn \cup moved
          /\ called' = [op |-> "commit", db |-> d, obj |-> first, err |-> err]
  /\ started' = [started EXCEPT ![d] = FALSE]
  /\ ending' = [ending EXCEPT ![d] = TRUE]
  /\ UNCHANGED <<attr, unconn>>
  /\ UNCHANGED <<machinery, loading, pdict>>

\* Synchronizer.afterCompletion of the thread of instance d: a connected
\* object is checked in if no thread has a transaction start, or if it has a
\* serial that the earliest start is not before (the clock is not part of
\* this specification: the comparison has either outcome); the others stay
\* connected; the unconnected set is cleared.
OAfterCompletion(d) ==
  /\ ending[d]
  /\ \E back \in SUBSET conn :
       /\ IF \A e \in DBs : ~started[e] THEN back = conn
          ELSE back \subseteq {x \in conn : objects[x].ser}
       /\ objects' = [x \in Objs |-> IF x \in back THEN [objects[x] EXCEPT !.local = FALSE]
                                     ELSE objects[x]]
       /\ conn' = conn \ back
  /\ unconn' = [unconn EXCEPT ![d] = {}]
  /\ started' = [started EXCEPT ![d] = FALSE]
  /\ ending' = [ending EXCEPT ![d] = FALSE]
  /\ called' = [op |-> "after", db |-> d, obj |-> NoObj, err |-> "none"]
  /\ UNCHANGED <<attr, oreg, begun, db_oid, oid2obj, logged>>
  /\ UNCHANGED <<machinery, loading, pdict>>

\* db.root read by a thread of instance d that has no timestamp yet:
\* Manager.newTransaction catches up on the log
LoadLog(d) ==
  /\ ~begun[d]
  /\ ~ending[d]
  /\ oid2obj[d] # LoadInto(oid2obj[d], d)
  /\ oid2obj' = [oid2obj EXCEPT ![d] = LoadInto(oid2obj[d], d)]
  /\ called' = [op |-> "begin", db |-> d, obj |-> NoObj, err |-> "none"]
  /\ UNCHANGED <<objects, attr, oreg, begun, db_oid, logged, unconn, conn, started, ending>>
  /\ UNCHANGED <<machinery, loading, pdict>>

\* the oids the instance d or the log knows
Present(d) == {k \in 0..MaxOid : k \in logged \/ oid2obj[d][k] # NoObj}

\* the persistent objects that carry the oid k and belong to instance d
Carrying(d, k) == {x \in Objs : objects[x].jar = d /\ objects[x].oid = k}

\* two instances before they read a file that holds the transactions log,
\* by the objects made
StartOn(made, log) ==
  /\ ObjectsInit(FALSE, made, log)
  /\ now = 2
  /\ file = <<>>
  /\ flock = NoLock
  /\ ntx = 0
  /\ tx_ref = [d \in DBs |-> None]
  /\ tx_timestamp = [d \in DBs |-> None]
  /\ tx_count = [d \in DBs |-> 0]
  /\ offsets = [d \in DBs |-> NoOffsets]
  /\ buffer = [d \in DBs |-> <<>>]
  /\ wstream = [d \in DBs |-> NoHandle]
  /\ mem = [d \in DBs |-> FreshMemory]
  /\ connected = [d \in DBs |-> {}]
  /\ local = [t \in Threads |-> [k \in Keys |-> MARKER]]
  /\ active = [t \in Threads |-> [o \in Oids |-> MARKER]]
  /\ th = [t \in Threads |-> FreshThread]
  /\ hist = [wconf |-> {}, crashed |-> FALSE, began |-> {}]
  /\ resolver = "none"

\* two instances opened on a new, empty file
StartObj(made) == StartOn(made, <<>>)

InitObj == StartObj(NoneMade)

NextObj ==
  \/ \E d \in DBs, x \in Objs : Add(d, x)
  \/ \E d \in DBs, x \in Objs : Elect(d, x)
  \/ \E x \in Objs : OCheckout(x)
  \/ \E x \in Objs, y \in Objs : SetAttr(x, y)
  \/ \E d \in DBs : TransactionCommit(d)
  \/ \E d \in DBs : OAfterCompletion(d)
  \/ \E d \in DBs : LoadLog(d)

SpecObj == InitObj /\ [][NextObj]_vars

\* ---- new objects and the object graph -----------------------------------------------------------
\* The thread of instance 1 has created object 1, and object 2 was created by
\* it or by the thread of instance 2; the threads add, refer, check out and
\* commit.
InitGraph ==
  \E maker \in DBs : StartObj([d \in DBs |-> {x \in {1, 2} : d = (IF x = 1 THEN 1 ELSE maker)}])

NextGraph ==
  \/ \E d \in DBs, x \in Objs : Add(d, x)
  \/ \E x \in Objs : OCheckout(x)
  \/ \E x \in Objs, y \in Objs : SetAttr(x, y)
  \/ \E d \in DBs : TransactionCommit(d)
  \/ \E d \in DBs : OAfterCompletion(d)

SpecGraph == InitGraph /\ [][NextGraph]_vars

\* ---- references between loaded objects --------------------------------------------------------
marker == 0 - 4       \* manager.marker, the default of Manager.get
Cls == 0 - 5          \* the class object that an oid:// token carries
LoadOids == 0..1      \* the oids of the log read here

\* the logs: transactions of VERSION segments, each with the oid written and
\* the oid its pickled state refers to (NoOid: no reference)
Versions == [oid : LoadOids, ref : LoadOids \cup {NoOid}]
Groups == UNION {[1..n -> Versions] : n \in 1..MaxGroup}
Logs == UNION {[1..n -> Groups] : n \in 1..MaxLog}

\* Manager.get(oid, default) on the table tab: [obj, err].  A miss returns
\* the default, unless it is the marker: then Broken(oid) is called, without
\* the class that Broken.__new__ requires
Get(tab, k, default) ==
  LET obj == IF tab[k] # NoObj THEN tab[k] ELSE default
  IN IF obj = marker THEN [obj |-> NoObj, err |-> "TypeError"]
     ELSE [obj |-> obj, err |-> "none"]

\* persistent_id of Database.write for a Persistent object: the pickled
\* pair (oid, class), base64-encoded, after oid://
OidToken(k, cls) == [protocol |-> "oid", token |-> <<k, cls>>]

\* "%d" % n: the decimal digits of n
RECURSIVE Decimal(_)
Decimal(n) == IF n < 10 THEN <<n>> ELSE Append(Decimal(n \div 10), n % 10)

Colon == 10           \* the character ":" among the digits of a file:// token

\* persistent_id for a PersistentStream: "file://%d:%d" % (offset, length)
FileToken(offset, length) ==
  [protocol |-> "file", token |-> Decimal(offset) \o <<Colon>> \o Decimal(length)]

\* int(s) for a string of digits
RECURSIVE ParseInt(_)
ParseInt(s) ==
  IF Len(s) = 1 THEN s[1] ELSE 10 * ParseInt(SubSeq(s, 1, Len(s) - 1)) + s[Len(s)]

\* token.split(':') of a token with one colon
Split(s) ==
  LET i == CHOOSE j \in 1..Len(s) : s[j] = Colon
  IN <<SubSeq(s, 1, i - 1), SubSeq(s, i + 1, Len(s))>>

\* persistent_load of Database.read: jar.get(oid, cls) for an oid:// token,
\* PersistentStream(opener, offset, length) for a file:// token
Load(tab, tok) ==
  IF tok.protocol = "oid"
  THEN Get(tab, tok.token[1], tok.token[2]).obj
  ELSE LET p == Split(tok.token)
       IN [offset |-> ParseInt(p[1]), length |-> ParseInt(p[2])]

\* the streams of the log read here
FileOffsets == {0, 7, 12}
FileLengths == {1, 10}

\* Manager._read, the loop body for the VERSION e = [oid, val] of instance d,
\* val the unpickled attribute: an oid the table lacks gets a new object, an
\* object of the table keeps its identity and takes class and state
RECURSIVE ReadObjects(_, _, _)
ReadObjects(r, d, es) ==
  IF es = <<>> THEN r
  ELSE LET e == Head(es)
       IN ReadObjects([tab |-> IF r.tab[e.oid] = NoObj
                               THEN [r.tab EXCEPT ![e.oid] = Loaded(d, e.oid)]
                               ELSE r.tab,
                       holds |-> [r.holds EXCEPT ![e.oid] = e.val]],
                      d, Tail(es))

\* catch-up of instance d on the next transaction of the log: Database.read
\* unpickles every VERSION up to the RECORD, decoding the references, before
\* it yields them to Manager._read
ReadTransaction(d) ==
  /\ rpos[d] < Len(vlog)
  /\ LET g == vlog[rpos[d] + 1]
         es == [i \in 1..Len(g) |-> [oid |-> g[i].oid, val |-> IF g[i].ref = NoOid THEN NoObj
                                           ELSE Load(oid2obj[d], OidToken(g[i].ref, Cls))]]
         r == ReadObjects([tab |-> oid2obj[d], holds |-> holds[d]], d, es)
     IN /\ oid2obj' = [oid2obj EXCEPT ![d] = r.tab]
        /\ holds' = [holds EXCEPT ![d] = r.holds]
  /\ rpos' = [rpos EXCEPT ![d] = @ + 1]
  /\ called' = [op |-> "read", db |-> d, obj |-> NoObj, err |-> "none"]
  /\ UNCHANGED <<objects, attr, oreg, begun, db_oid, logged, unconn, conn, started,
                 ending, vlog, pdict>>
  /\ UNCHANGED machinery

\* db.get(oid) of the application on instance d
GetObject(d, k) ==
  /\ called' = [op |-> "get", db |-> d, obj |-> k, err |-> Get(oid2obj[d], k, marker).err]
  /\ UNCHANGED <<objects, attr, oreg, begun, db_oid, oid2obj, logged, unconn, conn,
                 started, ending>>
  /\ UNCHANGED <<machinery, loading, pdict>>

\* the unpickler of instance d meets the token of a stream; the call is
\* recorded with the pair (offset, length) written in the place of db
LoadStream(d, offset, length) ==
  /\ called' = [op |-> "stream", db |-> <<offset, length>>,
                obj |-> Load(oid2obj[d], FileToken(offset, length)), err |-> "none"]
  /\ UNCHANGED <<objects, attr, oreg, begun, db_oid, oid2obj, logged, unconn, conn,
                 started, ending>>
  /\ UNCHANGED <<machinery, loading, pdict>>

InitLoad == \E log \in Logs : StartOn(NoneMade, log)

NextLoad ==
  \/ \E d \in DBs : ReadTransaction(d)
  \/ \E d \in DBs, k \in LoadOids : GetObject(d, k)
  \/ \E d \in DBs, offset \in FileOffsets, length \in FileLengths : LoadStream(d, offset, length)

SpecLoad == InitLoad /\ [][NextLoad]_vars

\* ---- mutation of an object in shared mode ------------------------------------------------------
\* attribute and item assignment and deletion, and the mutators that
\* PersistentDict inherits from dict without overriding them
Mutations == {"setattr", "delattr", "setitem", "delitem", "update", "clear"}

\* the mutation of the entry sh of a shared object's state, v the value
\* offered: [sh, err].  Persistent.__setattr__, Persistent.__delattr__ and
\* PersistentDict.__setitem__ raise TypeError; PersistentDict.__delitem__
\* takes (key, value), so del d[key] raises TypeError for the missing
\* argument; dict.update and dict.clear act on the shared dictionary
SharedMutate(sh, kind, v) ==
  IF kind = "update" THEN [sh |-> v, err |-> "none"]
  ELSE IF kind = "clear" THEN [sh |-> MARKER, err |-> "none"]
  ELSE [sh |-> sh, err |-> "TypeError"]

\* thread t, in a transaction, mutates object o, which is in shared mode
MutateShared(t, o, kind) ==
  LET d == DbOf(t)
      r == SharedMutate(mem[d].sh[o], kind, th[t].txid)
  IN /\ th[t].pc = "active"
     /\ o \in mem[d].ex
     /\ mem[d].mo[o] = "shared"
     /\ mem' = [mem EXCEPT ![d].sh[o] = r.sh]
     /\ called' = [op |-> kind, db |-> d, obj |-> o, err |-> r.err]
     /\ UNCHANGED <<objects, attr, oreg, begun, db_oid, oid2obj, logged, unconn, conn,
                    started, ending, loading, pdict>>
     /\ UNCHANGED <<now, file, flock, ntx, tx_ref, tx_timestamp, tx_count, offsets,
                    buffer, wstream, connected, local, active, th, hist, resolver>>

\* the application before it commits: transactions begin, objects are checked
\* out, written and mutated in shared mode, transactions without a checkout end
NextShared ==
  \/ \E t \in Threads : NewTransaction(t)
  \/ \E t \in Threads, o \in Oids : Checkout(t, o)
  \/ \E t \in Threads, o \in Oids : Write(t, o)
  \/ \E t \in Threads : BeforeCompletion(t)
  \/ \E t \in Threads : AfterCompletion(t)
  \/ \E t \in Threads, o \in Oids, kind \in Mutations : MutateShared(t, o, kind)

SpecShared == Init /\ [][NextShared]_vars

\* ---- catch-up, step by step --------------------------------------------------------------------
\* Manager._sync takes no lock, and Database.read is a generator: the threads
\* of a process can be switched between the steps of their catch-ups.
\* transaction.begin() in thread t up to the first next() of the generator:
\* the synchronizer stamps the transaction, Database.read looks up the offset
\* of the last observed timestamp and maps the file at its current size
SyncOpen(t) ==
  LET d == DbOf(t)
      offset == IF tx_timestamp[d] = None THEN 0 ELSE offsets[d][tx_timestamp[d]]
  IN /\ th[t].pc = "idle"
     /\ ntx < MaxTx
     /\ \A u \in ThreadsOf(d) : u < t => u \in hist.began
     /\ ntx' = ntx + 1
     /\ hist' = [hist EXCEPT !.began = @ \cup {t}]
     /\ \E sts \in make_timestamp :
          LET c == ReCheckout(mem[d], local, active, t, connected[d], sts)
          IN /\ now' = sts
             /\ mem' = [mem EXCEPT ![d] = c.m]
             /\ local' = c.local
             /\ active' = c.active
             /\ th' = [th EXCEPT ![t].txid = ntx + 1, ![t].sync_ts = sts, ![t].tx_start = sts,
                                 ![t].pc = IF offset = NoOffset THEN "active" ELSE "sync",
                                 ![t].err = IF offset = NoOffset THEN "ValueError" ELSE "none",
                                 ![t].rd_pos = IF offset = NoOffset THEN 0 ELSE offset,
                                 ![t].rd_end = Len(file)]
     /\ UNCHANGED outside
     /\ UNCHANGED <<file, flock, tx_ref, tx_timestamp, tx_count, offsets, buffer,
                    wstream, connected>>

\* what the open generator of thread t yields next: the groups of the mapped
\* part of the file after its position
Pending(t) == Read(SubSeq(file, 1, th[t].rd_end), th[t].rd_pos)

\* one round of the loops of Manager._read and Manager._sync in thread t: the
\* generator indexes and yields a RECORD with its VERSIONs, _read applies
\* them, _sync counts the transaction and advances tx_timestamp
SyncStep(t) ==
  LET d == DbOf(t)
      g == Head(Pending(t).groups)
      ts == file[g.rec].ts
      r == ReadEntries([m |-> mem[d], local |-> local, active |-> active, conflicts |-> {}],
                       t, file, g.entries, ts, th[t].sync_ts)
  IN /\ th[t].pc = "sync"
     /\ Pending(t).groups # <<>>
     /\ mem' = [mem EXCEPT ![d] = r.m]
     /\ local' = r.local
     /\ active' = r.active
     /\ offsets' = [offsets EXCEPT ![d][ts] = g.rec]
     /\ tx_count' = [tx_count EXCEPT ![d] = @ + 1]
     /\ tx_timestamp' = [tx_timestamp EXCEPT ![d] = ts]
     /\ th' = [th EXCEPT ![t].rd_pos = g.rec,
                         ![t].err = IF r.conflicts # {} THEN "ReadConflictError" ELSE @]
     /\ UNCHANGED outside
     /\ UNCHANGED <<now, file, flock, ntx, tx_ref, buffer, wstream, connected, hist>>

\* the generator of thread t is exhausted: IntegrityError if VERSIONs are
\* left without a RECORD, else the transaction is under way
SyncClose(t) ==
  /\ th[t].pc = "sync"
  /\ Pending(t).groups = <<>>
  /\ th' = [th EXCEPT ![t].pc = "active", ![t].rd_pos = 0, ![t].rd_end = 0,
                      ![t].err = IF Pending(t).err # "none" THEN Pending(t).err
                                 ELSE IF Pending(t).left # <<>> THEN "IntegrityError"
                                 ELSE @,
                      ![t].snap = mem[DbOf(t)].sh]
  /\ UNCHANGED outside
  /\ UNCHANGED <<now, file, flock, ntx, tx_ref, tx_timestamp, tx_count, offsets,
                 buffer, wstream, mem, connected, local, active, hist>>

Writer == 3           \* the thread of the second process

\* the threads of process 1 catch up step by step on what the thread of
\* process 2 commits; their own transactions are empty
NextSync ==
  \/ \E t \in ThreadsOf(1) : SyncOpen(t)
  \/ \E t \in ThreadsOf(1) : SyncStep(t)
  \/ \E t \in ThreadsOf(1) : SyncClose(t)
  \/ NewTransaction(Writer)
  \/ \E o \in Oids : Checkout(Writer, o)
  \/ \E o \in Oids : Write(Writer, o)
  \/ \E t \in Threads : BeforeCompletion(t)
  \/ TpcBegin(Writer)
  \/ Commit(Writer)
  \/ TpcFinish(Writer)
  \/ \E t \in Threads : AfterCompletion(t)

\* The thread of process 2 has committed the root at time 3 (transaction 8
\* of Committed("foreign")) and is idle again; process 1 has not yet read
\* that transaction, and its threads are idle.
InitSync ==
  LET f == InitFile \o Committed("foreign")
  IN /\ now = 3
     /\ file = f
     /\ flock = NoLock
     /\ ntx = 0
     /\ tx_ref = [d \in DBs |-> None]
     /\ tx_timestamp = [d \in DBs |-> IF d = 2 THEN 3 ELSE 1]
     /\ tx_count = [d \in DBs |-> IF d = 2 THEN 2 ELSE 1]
     /\ offsets = [d \in DBs |->
                     IF d = 2 THEN [NoOffsets EXCEPT ![1] = Len(InitFile), ![3] = Len(f)]
                     ELSE [NoOffsets EXCEPT ![1] = Len(InitFile)]]
     /\ buffer = [d \in DBs |-> <<>>]
     /\ wstream = [d \in DBs |-> IF d = 2 THEN [h |-> 8, open |-> FALSE] ELSE NoHandle]
     /\ mem = [d \in DBs |->
                 [FreshMemory EXCEPT
                    !.ex = Oids,
                    !.jar = [o \in Oids |-> d],
                    !.ser = [o \in Oids |-> IF d = 2 THEN 3 ELSE 1],
                    !.sh = [o \in Oids |-> IF d = 2 THEN 8 ELSE MARKER]]]
     /\ connected = [d \in DBs |-> {}]
     /\ local = [t \in Threads |-> [k \in Keys |-> MARKER]]
     /\ active = [t \in Threads |-> [o \in Oids |-> MARKER]]
     /\ th = [t \in Threads |->
                IF t = Writer THEN [FreshThread EXCEPT !.timestamp = 3] ELSE FreshThread]
     /\ hist = [wconf |-> {}, crashed |-> FALSE, began |-> {Writer}]
     /\ resolver = "none"
     /\ ObjectsInit(TRUE, NoneMade, <<>>)

SpecSync == InitSync /\ [][NextSync]_vars

\* ---- a commit that stores a file, and the catch-up of another process -------------------------------
\* the thread of process 2 commits the root with a PersistentFile in its
\* state, or without one; the threads of process 1 begin transactions
NextPipe ==
  \/ \E t \in Threads : NewTransaction(t)
  \/ \E o \in Oids : Checkout(Writer, o)
  \/ \E o \in Oids : Write(Writer, o)
  \/ \E t \in Threads : BeforeCompletion(t)
  \/ TpcBegin(Writer)
  \/ Commit(Writer)
  \/ CommitFile(Writer)
  \/ TpcFinish(Writer)
  \/ \E t \in Threads : AfterCompletion(t)

SpecPipe == Init /\ [][NextPipe]_vars

\* ---- WorkingCopyDict as the items of a checked-out dictionary ------------------------------------
\* sh is the shared dict (_p_dict), lo the thread's dict (self.__dict__).
\* Keys are immutable, so a deep copy of a key is the key itself.
\* WorkingCopyDict.__contains__
Contains(sh, lo, k) ==
  IF lo[k] = DELETE THEN FALSE
  ELSE IF lo[k] # MARKER THEN TRUE
  ELSE sh[k] # MARKER

\* WorkingCopyDict.__getitem__: [val, err]
GetItem(sh, lo, k) ==
  IF lo[k] # MARKER /\ lo[k] = DELETE THEN [val |-> MARKER, err |-> "KeyError"]
  ELSE IF lo[k] # MARKER /\ lo[k] # IGNORE THEN [val |-> lo[k], err |-> "none"]
  ELSE IF lo[EKey] = MARKER /\ sh[k] # MARKER THEN [val |-> sh[k], err |-> "none"]
  ELSE [val |-> MARKER, err |-> "KeyError"]

\* WorkingCopyDict.__iter__: the keys yielded.  The first loop tests the key,
\* not the value, against IGNORE and DELETE, and no key is one of them; the
\* second loop yields the shared keys that the thread's dict lacks
Iter(sh, lo) ==
  {k \in DAll : lo[k] # MARKER} \cup {k \in DAll : sh[k] # MARKER /\ lo[k] = MARKER}

\* the keys the first loop of __iter__ yields, before any shared key
IterFirst(sh, lo) ==
  IF {k \in DAll : lo[k] # MARKER} # {} THEN {k \in DAll : lo[k] # MARKER} ELSE Iter(sh, lo)

\* WorkingCopyDict.pop(key, default), default = MARKER for none: [lo, val, err]
Pop(sh, lo, k, default) ==
  IF lo[k] \notin {MARKER, DELETE}
  THEN [lo |-> [lo EXCEPT ![k] = IF sh[k] # MARKER THEN DELETE ELSE MARKER],
        val |-> lo[k], err |-> "none"]
  ELSE IF sh[k] # MARKER
       THEN [lo |-> [lo EXCEPT ![k] = DELETE], val |-> sh[k], err |-> "none"]
       ELSE IF default # MARKER THEN [lo |-> lo, val |-> default, err |-> "none"]
            ELSE [lo |-> lo, val |-> MARKER, err |-> "KeyError"]

\* the loop of WorkingCopyDict.__setstate__ over the items of new_state, in
\* the order ord, from item i on: [sh, err].  delitem raises KeyError for a
\* key the shared dict lacks
RECURSIVE SetItems(_, _, _, _)
SetItems(sh, lo, ord, i) ==
  IF i > Len(ord) THEN [sh |-> sh, err |-> "none"]
  ELSE LET k == ord[i]
       IN IF lo[k] = IGNORE THEN SetItems(sh, lo, ord, i + 1)
          ELSE IF lo[k] = DELETE
               THEN IF sh[k] = MARKER THEN [sh |-> sh, err |-> "KeyError"]
                    ELSE SetItems([sh EXCEPT ![k] = MARKER], lo, ord, i + 1)
               ELSE SetItems([sh EXCEPT ![k] = lo[k]], lo, ord, i + 1)

\* WorkingCopyDict.__setstate__(new_state) with the thread's own dict, as
\* tpc_finish calls it: a state with EMPTY clears the shared dict first; the
\* thread's dict is cleared at the end, unless the loop raised.  [sh, lo, err]
SetState(sh, lo, ord) ==
  LET r == SetItems(IF lo[EKey] # MARKER THEN NoItems ELSE sh, lo, ord, 1)
  IN [sh |-> r.sh, lo |-> IF r.err = "none" THEN NoItems ELSE lo, err |-> r.err]

\* ---- the calls of the application on the checked-out dictionary -------------------------------
Result(op, k, v, e, ks) == [op |-> op, key |-> k, val |-> v, err |-> e, keys |-> ks]

DictFrame ==
  UNCHANGED <<machinery, objects, attr, oreg, begun, db_oid, oid2obj, logged, called,
              unconn, conn, started, ending, loading>>

\* d[k] = v: WorkingCopyDict.__setitem__
DictSet(k, v) ==
  /\ pdict' = [pdict EXCEPT !.lo[k] = v, !.out = Result("setitem", k, v, "none", {})]
  /\ DictFrame

\* del d[k]: WorkingCopyDict.__delitem__
DictDel(k) ==
  /\ pdict' = [pdict EXCEPT !.lo[k] = DELETE, !.out = Result("delitem", k, MARKER, "none", {})]
  /\ DictFrame

\* d.clear(): WorkingCopyDict.clear
DictClear ==
  /\ pdict' = [pdict EXCEPT !.lo = [NoItems EXCEPT ![EKey] = 1],
                            !.out = Result("clear", MARKER, MARKER, "none", {})]
  /\ DictFrame

\* d[k]
DictGet(k) ==
  /\ LET r == GetItem(pdict.sh, pdict.lo, k)
     IN pdict' = [pdict EXCEPT !.out = Result("getitem", k, r.val, r.err, {})]
  /\ DictFrame

\* k in d
DictContains(k) ==
  /\ pdict' = [pdict EXCEPT !.out = Result("contains", k,
                                           IF Contains(pdict.sh, pdict.lo, k) THEN 1 ELSE 0,
                                           "none", {})]
  /\ DictFrame

\* list(d), d.keys()
DictIter ==
  /\ pdict' = [pdict EXCEPT !.out = Result("iter", MARKER, MARKER, "none",
                                           Iter(pdict.sh, pdict.lo))]
  /\ DictFrame

\* d.pop(k) and d.pop(k, default)
DictPop(k, default) ==
  /\ LET r == Pop(pdict.sh, pdict.lo, k, default)
     IN pdict' = [pdict EXCEPT !.lo = r.lo,
                               !.out = Result(IF default = MARKER THEN "pop" ELSE "popdefault",
                                              k, r.val, r.err, {})]
  /\ DictFrame

\* d.popitem(): pop the first key the iteration yields, KeyError if it
\* yields none
DictPopItem ==
  /\ IF Iter(pdict.sh, pdict.lo) = {}
     THEN pdict' = [pdict EXCEPT !.out = Result("popitem", MARKER, MARKER, "KeyError", {})]
     ELSE \E k \in IterFirst(pdict.sh, pdict.lo) :
            LET r == Pop(pdict.sh, pdict.lo, k, MARKER)
            IN pdict' = [pdict EXCEPT !.lo = r.lo,
                                      !.out = Result("popitem", k, r.val, r.err, {})]
  /\ DictFrame

\* transaction.commit() and a new checkout: Manager.tpc_finish sets the state
\* of the working copy; an empty dict of the thread sets nothing
DictCommit ==
  /\ \E ord \in Orders({k \in DAll : pdict.lo[k] # MARKER}) :
       LET r == SetState(pdict.sh, pdict.lo, ord)
       IN pdict' = [sh |-> r.sh, lo |-> r.lo,
                    out |-> Result("commit", MARKER, MARKER, r.err, {})]
  /\ DictFrame

\* a new, empty PersistentDict, checked out; its shared items come from the
\* commits of the thread
NextDict ==
  \/ \E k \in DKeys, v \in DVals : DictSet(k, v)
  \/ \E k \in DKeys : DictDel(k)
  \/ DictClear
  \/ \E k \in DKeys : DictGet(k)
  \/ \E k \in DKeys : DictContains(k)
  \/ DictIter
  \/ \E k \in DKeys, default \in {MARKER, 2} : DictPop(k, default)
  \/ DictPopItem
  \/ DictCommit

SpecDict == Init /\ [][NextDict]_vars

\* ---- properties ---------------------------------------------------------------------------------------
\* the RECORD a reader of file f attributes segment i to: the first RECORD
\* after it, 0 when there is none
RecordOf(f, i) ==
  LET later == {j \in (i + 1)..Len(f) : f[j].type = LOG_RECORD}
  IN IF later = {} THEN 0 ELSE SetMin(later)

\* the thread running transaction x, if it still does
Running(x) == {t \in Threads : th[t].txid = x /\ th[t].pc # "idle" /\ th[t].pc # "dead"}

\* C1: when Manager.commit of transaction T visits an object o whose serial is
\* later than T's begin timestamp, commit raises WriteConflictError, and no
\* VERSION of o written by T is ever attributed to a committed RECORD.
C1_WriteConflict ==
  \A p \in hist.wconf :
    /\ \A t \in Running(p[1]) : th[t].err = "WriteConflictError"
    /\ \A i \in 1..Len(file) :
         (file[i].type = LOG_VERSION /\ file[i].tx = p[1] /\ file[i].oid = p[2])
           => ~(RecordOf(file, i) # 0 /\ file[RecordOf(file, i)].status)
    /\ \A d \in DBs : \A i \in 1..Len(buffer[d]) :
         ~(buffer[d][i].tx = p[1] /\ buffer[d][i].oid = p[2])

\* a transaction met a later serial in commit, raised and was aborted
C1_Witness ==
  \E p \in hist.wconf : \E t \in Running(p[1]) :
    th[t].pc = "after" /\ th[t].err = "WriteConflictError"

\* C2: a thread that has an object checked out and has not committed reads
\* its own uncommitted write or the value the shared state had when its
\* transaction began; no later commit of another thread shows through.
C2_Isolation ==
  \A t \in Threads : \A o \in Oids :
    (th[t].pc = "active" /\ o \in th[t].registered /\ mem[DbOf(t)].mo[o] = "local")
      => ReadAttr(t, o) \in {th[t].txid, th[t].snap[o]}

\* the VERSION segments at the end of the file that no RECORD follows
Orphans ==
  LET last == Len(file) - Cardinality({i \in 1..Len(file) : RecordOf(file, i - 1) = 0})
  IN [k \in 1..(Len(file) - last) |-> last + k]

\* what a catch-up by thread t (Manager._sync) would do in this state
CatchUp(t) == Sync(t, local, active, mem[DbOf(t)], th[t].sync_ts)

\* what a reload by a new Database would do in this state
Reload(t) == SyncFrom(FreshMemory, local, active, NoOffsets, None, 0, t, None)

\* memory m holds no state that an orphan's transaction wrote
Untouched(m) ==
  \A k \in 1..Len(Orphans) :
    file[Orphans[k]].val = file[Orphans[k]].tx
      => m.sh[file[Orphans[k]].oid] # file[Orphans[k]].val

\* s, the outcome of reading the file, reports the orphans and applies none
ExcludesOrphans(s) ==
  /\ s.out.err = "IntegrityError"
  /\ s.out.n = Len(Orphans)
  /\ \A k \in 1..Len(Orphans) : Orphans[k] \notin s.out.applied
  /\ Untouched(s.m)

\* C3: when a writer has stopped after its VERSION segments reached the file
\* and before its RECORD, a catch-up or a reload of that file applies none of
\* these versions and reports an IntegrityError with their number.
C3_Atomicity ==
  /\ [](Orphans # <<>> =>
         \A t \in Threads :
           /\ th[t].pc # "dead" => ExcludesOrphans(CatchUp(t))
           /\ ExcludesOrphans(Reload(t)))
  /\ [][Orphans # <<>> =>
         \A t \in Threads :
           (th[t].pc = "idle" /\ th'[t].pc = "active")
             => (th'[t].err = "IntegrityError" /\ Untouched(mem'[DbOf(t)]))]_vars

\* a writer crashed in its flush, and a transaction begun on the file it left
\* got the IntegrityError
C3_Witness ==
  /\ hist.crashed
  /\ Orphans # <<>>
  /\ \E k \in 1..Len(Orphans) : file[Orphans[k]].val = file[Orphans[k]].tx
  /\ \E t \in Threads : th[t].pc = "active" /\ th[t].err = "IntegrityError"

\* the VERSION segments that transaction wrote itself and that the file
\* attributes to that transaction's own aborted RECORD
AbortedWrites ==
  {i \in 1..Len(file) :
     /\ file[i].type = LOG_VERSION
     /\ file[i].val = file[i].tx
     /\ RecordOf(file, i) # 0
     /\ ~file[RecordOf(file, i)].status
     /\ file[RecordOf(file, i)].tx = file[i].tx}

\* C4: an aborted transaction leaves no trace in object state: no catch-up
\* or reload that reads its RECORD applies the VERSION segments before it,
\* so no object of any Database holds a state the aborted transaction wrote;
\* the RECORD itself is indexed under its timestamp by a reader.
C4_AbortedNoTrace ==
  \A i \in AbortedWrites :
    /\ \A d \in DBs : mem[d].sh[file[i].oid] # file[i].val
    /\ \A t \in Threads : i \notin Reload(t).out.applied
    /\ \A t \in Threads : Reload(t).offsets[file[RecordOf(file, i)].ts] # NoOffset

\* the threads between a successful tpc_begin and their tpc_finish/tpc_abort
InCommit ==
  {t \in Threads : \/ th[t].pc \in {"commit", "finish"}
                   \/ th[t].pc = "fail" /\ th[t].err # "IOError"}

\* C5: at most one transaction, over all threads and processes, is between a
\* successful tpc_begin and its tpc_finish/tpc_abort; a Database's tx_ref is a
\* transaction if and only if that transaction holds the commit lock; and
\* only the lock holder's segments are appended to the file.
C5_CommitLock ==
  /\ Cardinality(InCommit) <= 1
  /\ \A d \in DBs : tx_ref[d] # None => flock = <<d, tx_ref[d]>>
  /\ \A d \in DBs : flock[1] = d => tx_ref[d] = flock[2]
  /\ \A i \in 1..Len(file) :
       (file[i].type = LOG_VERSION /\ RecordOf(file, i) # 0)
         => file[i].tx = file[RecordOf(file, i)].tx

\* C6: tpc_begin never waits: when another transaction holds the commit
\* lock, tpc_begin fails at once with the I/O error of the lock attempt, the
\* failing transaction does not become tx_ref, and the file is unchanged.
C6_TpcBeginFailsFast ==
  [][\A t \in Threads :
       (th[t].pc = "tpc_begin" /\ th'[t].pc # "tpc_begin" /\ th'[t].pc # "dead"
          /\ flock # NoLock)
         => /\ th'[t].pc = "fail"
            /\ th'[t].err = "IOError"
            /\ tx_ref'[DbOf(t)] # th[t].txid
            /\ file' = file]_vars

\* C7: the commit lock is always released by the tpc_finish or tpc_abort of
\* the transaction that acquired it: after that call the lock is free, tx_ref
\* is cleared and the write handle is closed.
C7_LockReleased ==
  [][\A t \in InCommit :
       (th[t].pc # "commit" /\ th'[t].pc = "after")
         => /\ flock' = NoLock
            /\ tx_ref'[DbOf(t)] = None
            /\ ~wstream'[DbOf(t)].open]_vars

\* C8: when every transaction has completed (and no writer crashed), the file
\* is a concatenation of groups, each the VERSION segments of one transaction
\* followed by that transaction's one RECORD: no VERSION without a RECORD, no
\* VERSION under the RECORD of another transaction, no transaction with two
\* RECORDs.
C8_LogShape ==
  ((\A t \in Threads : th[t].pc = "idle") /\ ~hist.crashed) =>
    /\ \A d \in DBs : buffer[d] = <<>>
    /\ \A i \in 1..Len(file) :
         file[i].type = LOG_VERSION
           => (RecordOf(file, i) # 0 /\ file[RecordOf(file, i)].tx = file[i].tx)
    /\ \A i, j \in 1..Len(file) :
         (file[i].type = LOG_RECORD /\ file[j].type = LOG_RECORD /\ i # j)
           => file[i].tx # file[j].tx

\* C9: the timestamps of the RECORDs in the file are pairwise distinct and
\* strictly increasing in file order.
C9_RecordTimestamps ==
  \A i, j \in 1..Len(file) :
    (file[i].type = LOG_RECORD /\ file[j].type = LOG_RECORD /\ i < j)
      => file[i].ts < file[j].ts

\* C10: the serial of an object never decreases in a step of a running
\* process, and a tpc_finish that commits the object leaves it with a serial
\* strictly greater than the one it had.
C10_MonotonicSerials ==
  [][\A t \in Threads : \A o \in Oids :
       (th[t].pc # "dead" /\ th'[t].pc # "dead")
         => /\ mem'[DbOf(t)].ser[o] >= mem[DbOf(t)].ser[o]
            /\ (th[t].pc = "finish" /\ o \in th[t].committed /\ th'[t].committed = {}
                  /\ tx_ref[DbOf(t)] = th[t].txid /\ ~th[t].unconnected)
                 => mem'[DbOf(t)].ser[o] > mem[DbOf(t)].ser[o]]_vars

\* a step in which the tpc_finish of thread t's transaction returns
FinishReturns(t) ==
  th[t].pc = "finish" /\ th'[t].pc = "after" /\ th'[t].err = "none"

\* the shared value of o after transaction T of thread t is laid over it: the
\* value T wrote, the value it had when T wrote nothing
Overlaid(t, o) ==
  IF local[t][o] = th[t].txid THEN th[t].txid ELSE mem[DbOf(t)].sh[o]

\* C15: when tpc_finish returns for transaction T, every object committed in
\* T has as shared state its state before overlaid with T's writes, has T's
\* commit timestamp as serial, is in the oid table, and T's thread no longer
\* counts as its reader; every other object keeps shared state and serial.
C15_TpcFinishEffect ==
  [][\A t \in Threads : FinishReturns(t) =>
       /\ \A o \in th[t].committed :
            /\ mem'[DbOf(t)].sh[o] = Overlaid(t, o)
            /\ mem'[DbOf(t)].ser[o] = th[t].timestamp
            /\ o \in mem'[DbOf(t)].ex
            /\ mem'[DbOf(t)].cnt[o] = mem[DbOf(t)].cnt[o] - 1
       /\ th'[t].committed = {}
       /\ \A o \in Oids \ th[t].committed :
            /\ mem'[DbOf(t)].sh[o] = mem[DbOf(t)].sh[o]
            /\ mem'[DbOf(t)].ser[o] = mem[DbOf(t)].ser[o]]_vars

\* a step in which the transaction of thread t is given up: Manager.abort
\* and/or tpc_abort have run when it is over
AbortReturns(t) ==
  th[t].pc \in {"fail", "finish"} /\ th'[t].pc = "after" /\ th'[t].err # "none"

\* C16: when a transaction has been aborted, its thread's registered and
\* committed sets are empty, the thread's dict of every such object holds
\* nothing, each such object has lost exactly one reader, and the thread
\* reads the shared state of every object.
C16_AbortDiscards ==
  [][\A t \in Threads : AbortReturns(t) =>
       /\ th'[t].registered = {}
       /\ th'[t].committed = {}
       /\ \A o \in Oids :
            /\ o \in th[t].registered \cup th[t].committed
                 => /\ local'[t][o] = MARKER
                    /\ mem'[DbOf(t)].cnt[o] = mem[DbOf(t)].cnt[o] - 1
            /\ o \notin th[t].registered \cup th[t].committed
                 => mem'[DbOf(t)].cnt[o] = mem[DbOf(t)].cnt[o]
            /\ ReadAttr(t, o)' = mem'[DbOf(t)].sh[o]]_vars


\* ---- read conflicts (C11) ---------------------------------------------------------------------------
\* the objects checked out in memory m0 for which the catch-up with outcome s
\* loaded a version of a committed RECORD
Conflicting(m0, s) ==
  {o \in Oids : /\ m0.mo[o] = "local"
                /\ \E i \in s.out.applied : file[i].oid = o /\ file[RecordOf(file, i)].status}

\* the last version of o that the catch-up with outcome s loaded
LastLoaded(s, o) ==
  CHOOSE i \in s.out.applied :
    file[i].oid = o /\ \A j \in s.out.applied : file[j].oid = o => j <= i

\* what newTransaction of thread t at time sts would do in this state: the
\* memory after Synchronizer.newTransaction, and the outcome of the catch-up
NewView(t, sts) ==
  LET c == ReCheckout(mem[DbOf(t)], local, active, t, connected[DbOf(t)], sts)
  IN [before |-> c.m, s |-> Sync(t, c.local, c.active, c.m, sts)]

\* the outcome the claim describes for a catch-up from memory m0 with outcome s
ConflictRaised(m0, s) ==
  Conflicting(m0, s) # {} =>
    IF resolver = "returns"
    THEN /\ s.out.err = "none"
         /\ \A o \in Conflicting(m0, s) :
              file[LastLoaded(s, o)].val >= 0
                => s.m.sh[o] = file[LastLoaded(s, o)].val + 10
    ELSE /\ s.out.err = "ReadConflictError"
         /\ Conflicting(m0, s) \subseteq s.out.conflicts

\* the same, where the file ends in VERSION segments without a RECORD: the
\* IntegrityError of Database.read is raised in place of any other outcome
ConflictRaisedOrOrphans(m0, s) ==
  Conflicting(m0, s) # {} =>
    /\ Conflicting(m0, s) \subseteq s.out.conflicts \/ resolver = "returns"
    /\ IF Orphans # <<>> THEN s.out.err = "IntegrityError"
       ELSE IF resolver = "returns" THEN s.out.err = "none"
       ELSE s.out.err = "ReadConflictError"
    /\ resolver = "returns" =>
         \A o \in Conflicting(m0, s) :
           file[LastLoaded(s, o)].val >= 0
             => s.m.sh[o] = file[LastLoaded(s, o)].val + 10

\* C11 as stated: a catch-up (tpc_begin or newTransaction) that loads a
\* committed version of a checked-out object raises ReadConflictError naming
\* the object when there is no resolver or the resolver raises; when the
\* resolver returns a state, that state becomes the shared state and no error
\* is raised.
C11_ReadConflict ==
  \A t \in Threads :
    /\ th[t].pc \notin {"idle", "dead"} => ConflictRaised(mem[DbOf(t)], CatchUp(t))
    /\ th[t].pc = "idle" =>
         \A sts \in make_timestamp :
           ConflictRaised(NewView(t, sts).before, NewView(t, sts).s)

\* C11 amended: the same, unless the file ends in VERSION segments without a
\* RECORD, where the catch-up raises IntegrityError instead (the states are
\* set and the resolver is called all the same); and a tpc_begin that goes on
\* to commit has met no conflict, or a resolver that returned.
C11_ReadConflictUnlessOrphans ==
  /\ [](\A t \in Threads :
         /\ th[t].pc \notin {"idle", "dead"}
              => ConflictRaisedOrOrphans(mem[DbOf(t)], CatchUp(t))
         /\ th[t].pc = "idle" =>
              \A sts \in make_timestamp :
                ConflictRaisedOrOrphans(NewView(t, sts).before, NewView(t, sts).s))
  /\ [][\A t \in Threads :
          (th[t].pc = "tpc_begin" /\ th'[t].pc = "commit"
             /\ Conflicting(mem[DbOf(t)], CatchUp(t)) # {})
            => /\ resolver = "returns"
               /\ \A o \in Conflicting(mem[DbOf(t)], CatchUp(t)) :
                    file[LastLoaded(CatchUp(t), o)].val >= 0
                      => mem'[DbOf(t)].sh[o] = file[LastLoaded(CatchUp(t), o)].val + 10]_vars

\* a tpc_begin met the other process's commit of the checked-out root and
\* raised ReadConflictError
C11_Witness ==
  \E t \in Threads :
    /\ th[t].pc = "fail"
    /\ th[t].err = "ReadConflictError"
    /\ mem[DbOf(t)].mo[ROOT_OID] = "local"
    /\ mem[DbOf(t)].sh[ROOT_OID] = 8
    /\ resolver = "raises"

\* ---- conflict resolution at commit (C12) ------------------------------------------------------------
\* the objects Manager.commit of thread t visits that this thread has written
\* and whose serial is later than the transaction's begin timestamp
LateWrites(t) ==
  {o \in th[t].registered : /\ local[t][o] = th[t].txid
                            /\ mem[DbOf(t)].jar[o] = DbOf(t)
                            /\ mem[DbOf(t)].ser[o] > th[t].timestamp}

\* C12: when Manager.commit visits a modified object whose serial is later than
\* the transaction's begin timestamp and the class provides a conflict
\* resolver that returns a state, the commit raises no WriteConflictError and
\* writes the resolved state for the object.
C12_CommitResolves ==
  [][\A t \in Threads :
       (th[t].pc = "commit" /\ th'[t].pc \in {"finish", "fail"}
          /\ resolver = "returns" /\ LateWrites(t) # {})
         => /\ th'[t].err # "WriteConflictError"
            /\ \A o \in LateWrites(t) :
                 \E i \in 1..Len(buffer'[DbOf(t)]) :
                   /\ buffer'[DbOf(t)][i].oid = o
                   /\ buffer'[DbOf(t)][i].val = ResolveConflict(th[t].txid)]_vars

\* ---- visibility between threads (C13) ----------------------------------------------------------------
\* thread a has finished a transaction that wrote o, and its value is the
\* shared state of o
Finished(a, o) ==
  /\ th[a].pc = "after"
  /\ th[a].err = "none"
  /\ th[a].txid # 0
  /\ mem[DbOf(a)].sh[o] = th[a].txid
  /\ mem[DbOf(a)].ser[o] = th[a].timestamp

\* C13: when thread a has finished (tpc_finish) a change to o, any other thread
\* b of the process that holds no write of its own to the attribute reads a's
\* value after its next newTransaction (whose catch-up loads nothing newer).
C13_CrossThread ==
  \A a, b \in Threads : \A o \in Oids :
    (/\ a # b
     /\ DbOf(a) = DbOf(b)
     /\ Finished(a, o)
     /\ th[b].pc = "idle"
     /\ local[b][o] = MARKER)
      => \A sts \in make_timestamp :
           NewView(b, sts).s.out.applied = {}
             => ReadAttrIn(NewView(b, sts).s.m, NewView(b, sts).s.local, b, o) = th[a].txid

\* ---- visibility between processes (C14) ------------------------------------------------------------
\* the database whose thread ran transaction x
WriterOf(x) == {DbOf(t) : t \in {u \in Threads : th[u].txid = x}}

\* the objects with a VERSION under the last RECORD of the file
LastGroup ==
  {file[i].oid : i \in {j \in 1..Len(file) : /\ file[j].type = LOG_VERSION
                                             /\ RecordOf(file, j) = Len(file)}}

\* the state of o that the last transaction of the file committed: the value
\* its last VERSION of o holds, no attribute when that is the DELETE tombstone
LastVersion(o) ==
  CHOOSE i \in 1..Len(file) :
    /\ file[i].type = LOG_VERSION /\ file[i].oid = o /\ RecordOf(file, i) = Len(file)
    /\ \A j \in (i + 1)..Len(file) : ~(file[j].type = LOG_VERSION /\ file[j].oid = o)

CommittedState(o) ==
  IF file[LastVersion(o)].val = DELETE THEN MARKER ELSE file[LastVersion(o)].val

\* database p2 has just committed the last transaction of the file, and no
\* thread of database p1 is in a transaction
JustCommitted(p1, p2) ==
  /\ p1 # p2
  /\ Len(file) > Len(InitFile)
  /\ file[Len(file)].type = LOG_RECORD
  /\ file[Len(file)].status
  /\ WriterOf(file[Len(file)].tx) = {p2}
  /\ tx_timestamp[p2] = file[Len(file)].ts
  /\ \A u \in ThreadsOf(p2) : th[u].pc \in {"idle", "after"}
  /\ \A u \in ThreadsOf(p1) : th[u].pc = "idle"

\* C14: when a second Database instance on the file has committed, the next
\* newTransaction of the first instance succeeds and leaves its objects with
\* the committed states and serials of the second; and the memory of an
\* instance changes only in steps of its own threads.
C14_CrossProcess ==
  /\ [](\A p1, p2 \in DBs : JustCommitted(p1, p2) =>
          \A t \in ThreadsOf(p1) : \A sts \in make_timestamp :
            /\ NewView(t, sts).s.out.err = "none"
            /\ \A o \in LastGroup :
                 /\ file[LastVersion(o)].val # MARKER
                      => NewView(t, sts).s.m.sh[o] = CommittedState(o)
                 /\ NewView(t, sts).s.m.ser[o] = file[Len(file)].ts)
  /\ [][\A d \in DBs :
          mem'[d] # mem[d] =>
            \/ \E t \in ThreadsOf(d) : th'[t] # th[t]
            \/ \A t \in ThreadsOf(d) : th[t].pc = "dead"]_vars

\* ---- the jar of an object (C20) --------------------------------------------------------------------
\* C20: once the jar of an object is set to a database, no step sets it to
\* another database or back to unset.
C20_JarImmutable ==
  [][\A d \in DBs : \A o \in Oids :
       mem[d].jar[o] # None => mem'[d].jar[o] = mem[d].jar[o]]_vars

\* ---- oids ---------------------------------------------------------------------------------------------
\* C17: an oid that the commit of instance d mints for an object is greater
\* than every oid the table of d or a VERSION of the log already holds, and
\* it is never 0.
C17_FreshOid ==
  [][\A d \in DBs : \A x \in Objs :
       (db_oid'[d] # db_oid[d] /\ objects[x].oid = NoOid /\ objects'[x].oid # NoOid)
         => /\ objects'[x].oid # ROOT_OID
            /\ \A k \in Present(d) : objects'[x].oid > k]_vars

\* ---- the root ---------------------------------------------------------------------------------------
\* instance d has a root: an object elected on d, or a root in the log
HasRoot(d) == Carrying(d, ROOT_OID) # {} \/ ROOT_OID \in logged

\* C18: elect(obj) succeeds only for a persistent object without oid on a
\* database without root, and then obj has oid 0 and this database as jar;
\* an elect on a database that has a root fails and changes no object and no
\* registration; at most one object of a database ever has oid 0.
C18_RootOnce ==
  [][\A d \in DBs : \A x \in Objs :
       (called'.op = "elect" /\ called'.db = d /\ called'.obj = x)
         => /\ called'.err = "none"
                 => /\ IsPersistent(x) /\ objects[x].oid = NoOid /\ ~HasRoot(d)
                    /\ objects'[x].oid = ROOT_OID /\ objects'[x].jar = d
            /\ HasRoot(d)
                 => /\ called'.err # "none"
                    /\ objects' = objects /\ oreg' = oreg
            /\ Cardinality(Carrying(d, ROOT_OID)') <= 1]_vars

\* ---- add ------------------------------------------------------------------------------------------------
\* C19: db.add(obj) attaches obj (jar set, registered, counted once) exactly
\* when obj is persistent, checked out and without jar; in every other case
\* (not persistent, not checked out, attached to this or to another database)
\* it raises and leaves obj's jar and reader count and the registered sets
\* as they were.
C19_AddAttachesOrRaises ==
  [][\A d \in DBs : \A x \in Objs :
       (called'.op = "add" /\ called'.db = d /\ called'.obj = x)
         => IF IsPersistent(x) /\ objects[x].local /\ objects[x].jar = None
            THEN /\ called'.err = "none"
                 /\ objects'[x].jar = d
                 /\ x \in oreg'[d]
                 /\ objects'[x].count = objects[x].count + 1
            ELSE /\ called'.err # "none"
                 /\ objects' = objects
                 /\ oreg' = oreg]_vars

\* an add was refused because the object is attached to the other database
C19_Witness ==
  /\ called.op = "add"
  /\ called.err = "InvalidObjectReference"
  /\ objects[called.obj].jar \in DBs \ {called.db}
  /\ called.obj \notin oreg[called.db]

\* ---- the vote of the synchronizer (C21) -------------------------------------------------------------
\* the VERSION segments of transaction x that lie in the file before a RECORD
\* of a commit or before no RECORD, or wait in a pickle buffer
Unaborted(x) ==
  {<<0, i>> : i \in {k \in 1..Len(file) :
                       /\ file[k].type = LOG_VERSION /\ file[k].tx = x
                       /\ (RecordOf(file, k) = 0 \/ file[RecordOf(file, k)].status)}}
  \cup UNION {{<<d, i>> : i \in {k \in 1..Len(buffer[d]) : buffer[d][k].tx = x}} : d \in DBs}

\* C21: a transaction of a thread that holds an object without jar when the
\* synchronizer votes ends with ObjectGraphError and does not commit: once
\* the commit call has raised, none of its VERSION segments is in the log
\* before a RECORD of a commit, and none is left to be written.
C21_VoteAborts ==
  \A t \in Threads :
    (th[t].pc = "after" /\ th[t].unconnected)
      => /\ th[t].err # "none"
         /\ (th[t].err = "ObjectGraphError" => Unaborted(th[t].txid) = {})

ReadLast(d, k) ==
  LET at == {p \in (1..rpos[d]) \X (1..MaxGroup) : p[2] <= Len(vlog[p[1]]) /\ vlog[p[1]][p[2]].oid = k}
  IN IF at = {} THEN <<0, 0>>
     ELSE CHOOSE p \in at : \A q \in at : q[1] < p[1] \/ (q[1] = p[1] /\ q[2] <= p[2])

\* C23: a reference to an oid that was decoded before the VERSION of that oid
\* was loaded is a placeholder in the oid table, which takes the class and
\* state of the object once it is loaded: whenever a loaded object refers to
\* an oid that the table holds, its attribute is the object of the table.
C23_BrokenInPlace ==
  \A d \in DBs : \A k \in LoadOids :
    LET p == ReadLast(d, k)
        ref == vlog[p[1]][p[2]].ref
    IN (p # <<0, 0>> /\ ref # NoOid /\ oid2obj[d][ref] # NoObj)
         => holds[d][k] = oid2obj[d][ref]

\* ---- repeated checkout (C24) ---------------------------------------------------------------------
\* C24: a checkout of an object that the thread has checked out already in
\* this transaction changes nothing: the object stays registered once, the
\* reader count stays as the first checkout left it, and the thread's working
\* copy keeps the writes made since.
C24_CheckoutIdempotent ==
  \A t \in Threads : \A o \in Oids :
    (th[t].pc = "active" /\ o \in th[t].registered)
      => LET c == CheckedOut(t, o, now)
         IN /\ c.mem = mem
            /\ c.local = local
            /\ c.active = active
            /\ c.connected = connected
            /\ c.th = th

\* ---- shared mode (C25) ----------------------------------------------------------------------------
\* C25: every mutation of an object in shared mode raises an error and
\* leaves the shared state as it was.
C25_SharedReadOnly ==
  [][\A d \in DBs : \A o \in Oids :
       (called' # called /\ called'.op \in Mutations /\ called'.db = d /\ called'.obj = o
          /\ mem[d].mo[o] = "shared")
         => (called'.err # "none" /\ mem'[d].sh[o] = mem[d].sh[o])]_vars

\* ---- tokens (C26) ---------------------------------------------------------------------------------
\* C26: decoding the token of a reference gives back what was encoded: an
\* oid:// token gives the object of that oid (the one of the table, or a
\* placeholder for it), a file:// token a stream of that offset and length.
C26_RoundTrip ==
  /\ \A d \in DBs : \A k \in LoadOids :
       LET p == ReadLast(d, k)
           ref == vlog[p[1]][p[2]].ref
       IN (p # <<0, 0>> /\ ref # NoOid) => holds[d][k] = Loaded(d, ref)
  /\ called.op = "stream"
       => called.obj = [offset |-> called.db[1], length |-> called.db[2]]

\* ---- check-in (C27) -------------------------------------------------------------------------------
\* thread u is in a transaction that has neither committed nor aborted and
\* that it joined, hence began, before time ts
BegunBefore(u, ts) ==
  LET b == IF th[u].pc = "active" THEN th[u].sync_ts
           ELSE IF th[u].cbegin # None THEN th[u].cbegin ELSE th[u].timestamp
  IN th[u].pc \notin {"idle", "after"} /\ b # None /\ ts # None /\ b < ts

\* C27: afterCompletion checks an object in only if no other thread is in
\* a transaction that began before the object's last commit; an object for
\* which there is such a transaction stays connected and local.
C27_CheckinSafety ==
  [][\A t \in Threads : \A o \in Oids :
       LET d == DbOf(t)
           early == \E u \in ThreadsOf(d) \ {t} : BegunBefore(u, mem[d].ser[o])
       IN (th[t].pc = "after" /\ th'[t].pc = "idle" /\ o \in connected[d] /\ early)
            => (o \in connected'[d] /\ mem'[d].mo[o] = mem[d].mo[o])]_vars

\* ---- live working copies (C28) --------------------------------------------------------------------
\* C28: an object that some thread has checked out in a transaction that
\* has neither committed nor aborted is in local mode: no step of another
\* thread returns it to shared mode.
C28_LiveWorkingCopy ==
  \A t \in Threads : \A o \in Oids :
    (th[t].pc \notin {"idle", "after"} /\ o \in th[t].registered)
      => mem[DbOf(t)].mo[o] = "local"

\* ---- stable reads (C29) ---------------------------------------------------------------------------
\* C29: while a thread stays in one transaction with an object checked out,
\* a step that is not a write of its own to the attribute leaves the value
\* it reads through the working copy as it was, whatever other threads commit.
C29_StableReads ==
  [][\A t \in Threads : \A o \in Oids :
       LET d == DbOf(t)
           own == local'[t][o] = th[t].txid /\ local[t][o] # th[t].txid
       IN (/\ th[t].pc = "active" /\ th'[t].pc = "active" /\ th'[t].txid = th[t].txid
           /\ o \in th[t].registered /\ o \in th'[t].registered
           /\ mem[d].mo[o] = "local" /\ mem'[d].mo[o] = "local"
           /\ ~own)
            => ReadAttrIn(mem'[d], local', t, o) = ReadAttr(t, o)]_vars

\* ---- writers of shared state (C30) ----------------------------------------------------------------
\* C30: the shared state and the serial of an object of a running process
\* change only in a step that is the tpc_finish of one of its threads.
C30_SharedWrittenInFinish ==
  [][\A d \in DBs : \A o \in Oids :
       (/\ mem'[d].sh[o] # mem[d].sh[o] \/ mem'[d].ser[o] # mem[d].ser[o]
        /\ \E u \in ThreadsOf(d) : th[u].pc # "dead")
         => \E t \in ThreadsOf(d) :
              th[t].pc = "finish" /\ th'[t].pc = "after" /\ th'[t].err = "none"]_vars

\* ---- catch-up (C31) -------------------------------------------------------------------------------
\* the RECORD segments of the file
Records == {i \in 1..Len(file) : file[i].type = LOG_RECORD}

\* C31: however the catch-ups of the threads of a process interleave, each
\* RECORD of the log is applied and counted once: an instance never counts
\* more transactions than the log holds.
C31_CatchUpOnce ==
  \A d \in DBs : tx_count[d] <= Cardinality(Records)

\* ---- the checked-out dictionary (C32, C33, C34, C39) ----------------------------------------------
\* key k is visible to the thread: it wrote it, or the shared dict has it and
\* the thread neither deleted it nor cleared the dictionary
Visible(k) ==
  \/ pdict.lo[k] \in DVals
  \/ pdict.lo[k] = MARKER /\ pdict.lo[EKey] = MARKER /\ pdict.sh[k] # MARKER

\* the thread has cleared the dictionary and not written k since, and the
\* shared dict has k
Hidden(k) == pdict.lo[EKey] # MARKER /\ pdict.lo[k] = MARKER /\ pdict.sh[k] # MARKER

\* the call that this step makes
Calls(op) == pdict'.out # pdict.out /\ pdict'.out.op = op

\* C32: after clear() no read of the thread reports a key that only the
\* shared dict has, and the commit leaves in the shared dict exactly the keys
\* written after the clear.
C32_ClearHides ==
  [][/\ \A k \in DKeys :
          Hidden(k) => /\ (Calls("getitem") /\ pdict'.out.key = k) => pdict'.out.err = "KeyError"
                       /\ (Calls("contains") /\ pdict'.out.key = k) => pdict'.out.val = 0
                       /\ Calls("iter") => k \notin pdict'.out.keys
     /\ (Calls("commit") /\ pdict.lo[EKey] # MARKER /\ pdict'.out.err = "none")
          => {k \in DAll : pdict'.sh[k] # MARKER} = {k \in DKeys : pdict.lo[k] \in DVals}]_vars

\* C33: iteration yields exactly the visible keys, each once, no marker
\* among them, and agrees with the membership test.
C33_IterationVisible ==
  [][/\ Calls("iter") => pdict'.out.keys = {k \in DKeys : Visible(k)}
     /\ \A k \in DKeys :
          (Calls("contains") /\ pdict'.out.key = k)
            => (pdict'.out.val = 1 <=> Visible(k))]_vars

\* C34: pop(key) of a visible key returns its value and the key is then no
\* member; pop of a key that is not visible raises KeyError, or returns the
\* default if one is given; popitem raises KeyError when no key is visible;
\* a popped key is absent from the shared dict after the commit.
C34_PopRemoves ==
  [][/\ \A k \in DKeys :
          /\ ((Calls("pop") \/ Calls("popdefault")) /\ pdict'.out.key = k /\ Visible(k))
               => /\ pdict'.out.err = "none"
                  /\ pdict'.out.val = GetItem(pdict.sh, pdict.lo, k).val
                  /\ ~Contains(pdict'.sh, pdict'.lo, k)
          /\ (Calls("pop") /\ pdict'.out.key = k /\ ~Visible(k))
               => pdict'.out.err = "KeyError"
          /\ (Calls("popdefault") /\ pdict'.out.key = k /\ ~Visible(k))
               => (pdict'.out.err = "none" /\ pdict'.out.val = 2)
          /\ (Calls("commit") /\ pdict'.out.err = "none" /\ pdict.lo[k] = DELETE)
               => pdict'.sh[k] = MARKER
     /\ (Calls("popitem") /\ \A k \in DKeys : ~Visible(k))
          => pdict'.out.err = "KeyError"]_vars

\* C39: the shared dict never holds DELETE, IGNORE or EMPTY as a key or as
\* a value, and a commit of a dict that marks DELETE on a key the shared
\* dict lacks raises nothing.
C39_NoMarkerLeaks ==
  /\ pdict.sh[EKey] = MARKER
  /\ \A k \in DKeys : pdict.sh[k] \notin {DELETE, IGNORE}
  /\ pdict.out.op = "commit" => pdict.out.err = "none"

\* thread w is inside a commit that nothing has failed: it holds the commit
\* lock, Manager.commit has returned, tpc_finish has not run
Healthy(w) ==
  /\ th[w].pc = "finish"
  /\ th[w].err = "none"
  /\ tx_ref[DbOf(w)] = th[w].txid

\* C35: a catch-up of process 1 applies a VERSION only when the RECORD of
\* its transaction follows it in the file, and it raises nothing while the
\* writer of process 2 is inside a commit that has not failed.
C35_NoPartialRead ==
  \A t \in ThreadsOf(1) :
    /\ \A i \in CatchUp(t).out.applied :
         \E j \in (i + 1)..Len(file) :
           file[j].type = LOG_RECORD /\ file[j].tx = file[i].tx
    /\ Healthy(Writer) => CatchUp(t).out.err = "none"

\* C36: the timestamp a database last observed is unset or indexed, the
\* index naming the position just past the RECORD of that timestamp, and no
\* catch-up ends with the error of an unknown timestamp.
C36_TimestampIndexed ==
  /\ \A d \in DBs :
       tx_timestamp[d] # None =>
         /\ offsets[d][tx_timestamp[d]] # NoOffset
         /\ offsets[d][tx_timestamp[d]] \in 1..Len(file)
         /\ file[offsets[d][tx_timestamp[d]]].type = LOG_RECORD
         /\ file[offsets[d][tx_timestamp[d]]].ts = tx_timestamp[d]
  /\ \A t \in Threads : th[t].err # "ValueError"

\* C37: when the tpc_begin of thread b fails with the IOError of the lock
\* attempt while thread a of the same Database holds the commit lock, the
\* Database's tx_ref, its write handle and the lock are as they were.
C37_HolderUndisturbed ==
  [][\A a, b \in Threads :
       ( /\ a # b /\ DbOf(a) = DbOf(b)
         /\ th[a].txid # None /\ tx_ref[DbOf(a)] = th[a].txid
         /\ flock = <<DbOf(a), th[a].txid>>
         /\ th[b].pc = "tpc_begin" /\ th'[b].pc = "fail" /\ th'[b].err = "IOError" )
       => /\ tx_ref'[DbOf(a)] = tx_ref[DbOf(a)]
          /\ wstream'[DbOf(a)] = wstream[DbOf(a)]
          /\ flock' = flock]_vars

\* the step is tpc_finish, or tpc_abort with no abort before it, called by
\* thread t with a transaction that is not the Database's tx_ref
NonHolderCall(t) ==
  /\ th[t].pc = "finish" /\ th'[t].pc = "after"
  /\ tx_ref[DbOf(t)] # th[t].txid
  /\ \/ ~th[t].unconnected
     \/ /\ th'[t].committed = th[t].committed
        /\ th'[t].registered = th[t].registered

\* C38: tpc_finish and tpc_abort with a transaction that is not the current
\* one append nothing, leave lock, handle and tx_ref alone and change no
\* object's shared state, serial or reader count.
C38_NonHolderNoOp ==
  [][\A t \in Threads :
       NonHolderCall(t)
         => /\ file' = file /\ buffer' = buffer /\ offsets' = offsets
            /\ flock' = flock /\ wstream' = wstream /\ tx_ref' = tx_ref
            /\ tx_count' = tx_count /\ tx_timestamp' = tx_timestamp
            /\ mem' = mem /\ local' = local /\ active' = active]_vars

\* a tpc_finish has returned at once: the thread is past it and its
\* committed set is as Manager.commit left it
C38_Returned ==
  \E t \in Threads :
    /\ th[t].pc = "after" /\ th[t].err = "none"
    /\ th[t].committed # {}
    /\ tx_ref[DbOf(t)] # th[t].txid

\* the (thread, set) memberships of object o in the registered and the
\* committed sets of the threads of Database d
Memberships(d, o) ==
  Cardinality({t \in ThreadsOf(d) : o \in th[t].registered})
    + Cardinality({t \in ThreadsOf(d) : o \in th[t].committed})

\* C40: in a running process the reader count of every object is
\* non-negative and equals the number of its memberships in the registered
\* and committed sets of the threads.
C40_ReaderCount ==
  \A d \in DBs, o \in Oids :
    (\A t \in ThreadsOf(d) : th[t].pc # "dead")
      => /\ mem[d].cnt[o] >= 0
         /\ mem[d].cnt[o] = Memberships(d, o)

====
